---- MODULE Spec2Model ----
(***************************************************************************)
(* Delivery-plan optimizer of the robot service                            *)
(* (webapp/backend/internal/service/robot.go).                             *)
(*                                                                         *)
(* One call of selectOrdersForDeliveryOptimized is modelled: the filter    *)
(* and the partition, the choice of the solver, the four solvers (Greedy,  *)
(* Core, FPTAS, Exact DP) and the assembly of the plan.  The solvers that  *)
(* poll the context (Core, FPTAS, Exact DP) advance one item per step, so  *)
(* that a cancellation can arrive between two polls.                       *)
(*                                                                         *)
(* PoolSpec models GenerateDeliveryPlan for two concurrent requests that   *)
(* share the memory pool of the service; TierSpec applies the choice of    *)
(* the solver to a grid of sizes; ShipSpec models the transactions of      *)
(* concurrent requests on the shipping orders of the database.             *)
(*                                                                         *)
(* Go slices are sequences (1-based); a Go index i is position i+1.  Go    *)
(* arrays indexed by a capacity or a value are functions over 0..n.        *)
(***************************************************************************)
EXTENDS Integers, Sequences, FiniteSets, TLC

VARIABLES
    pc,               \* "idle" | "core" | "fptas" | "exact" | "poll" | "done"
    orders,           \* argument orders of the call
    robotCapacity,    \* argument robotCapacity of the call
    cancelled,        \* ctx.Err() != nil
    cancelledAtCall,  \* history: ctx.Err() != nil when the call was made
    tier,             \* solver the call dispatched to
    zeroWeightOrders, \* local zeroWeightOrders
    positiveOrders,   \* local positiveOrders (sorted in place by Core and Exact DP)
    idx,              \* loop variable i of the running solver's item loop
    dp,               \* Core: dp[w]; FPTAS: dp[v]
    parent,           \* Core: parent[i][w]; FPTAS: parent[i][v]
    bestValue,        \* Exact DP: bestValue[cap]
    bestPathIdx,      \* Exact DP: bestPathIdx[cap]
    paths,            \* Exact DP: arena of pathNode
    steps,            \* Exact DP: inner-loop step counter
    currentCap,       \* Exact DP: loop variable currentCap at a poll of the inner loop
    stepsAtPoll,      \* history: steps at the last poll of the context
    stepsAtCancel,    \* history: steps when the context was cancelled (-1: not in the Exact DP)
    plan,             \* returned model.DeliveryPlan
    err,              \* returned error
    probe,            \* TierSpec: sizes n and c and the solver chosen for them
    heap,             \* PoolSpec: backing arrays of []model.Order, by address
    orderPool,        \* PoolSpec: memPool.orderSlices (addresses)
    robot,            \* PoolSpec: the requests, one per robot
    shipped,          \* ShipSpec: orders.shipped_status as committed, by order id
    txn,              \* ShipSpec: the transaction of each request
    assigned,         \* ShipSpec: history: the returned plans that hold each order
    ordersLen,        \* BatchSpec: len(orders) of the call of createOrdersInBatches
    goroutine,        \* BatchSpec: the batch goroutines, by the index of the batch
    semaphore,        \* BatchSpec: len(semaphore)
    wg,               \* BatchSpec: counter of the WaitGroup
    mu,               \* BatchSpec: mu is locked
    allOrderIDs,      \* BatchSpec: local allOrderIDs
    errCh,            \* BatchSpec: buffer of errCh
    insertedOrderIDs, \* BatchSpec: *insertedOrderIDs
    caller,           \* BatchSpec: the goroutine that runs createOrdersInBatches
    entries,          \* CacheSpec: c.entries
    now,              \* CacheSpec: time.Now()
    reader,           \* CacheSpec: the calls of get, one per thread
    emptyKeySet       \* CacheSpec: history: set was called with the key ""

\* Variables of TierSpec and of PoolSpec.
tierVars == <<probe>>
poolVars == <<heap, orderPool, robot>>

\* Variables of Spec.
optVars == <<pc, orders, robotCapacity, cancelled, cancelledAtCall, tier, zeroWeightOrders,
             positiveOrders, idx, dp, parent, bestValue, bestPathIdx, paths,
             steps, currentCap, stepsAtPoll, stepsAtCancel, plan, err>>

\* Variables of BatchSpec and of CacheSpec.
batchVars == <<ordersLen, goroutine, semaphore, wg, mu, allOrderIDs, errCh,
               insertedOrderIDs, caller>>
cacheVars == <<entries, now, reader, emptyKeySet>>

\* Variables of ShipSpec.
shipVars == <<shipped, txn, assigned>>

\* Variables of the specifications beside the optimizer.
sideVars == <<shipVars, batchVars, cacheVars>>

vars == <<optVars, tierVars, poolVars, sideVars>>

----------------------------------------------------------------------------
(* Bounds of the model and constants of the program *)

\* An input order list is a head of at most MaxHead orders of any kind
\* followed by at most MaxPad copies of one kind.
MaxHead == 2
MaxPad == 6

GreedyMaxN == 5
GreedyMaxCap == 20
CoreMaxN == 50
CoreMaxCap == 200
FPTASMinN == 100
FPTASMinCap == 500
CoreMinSize == 5
CoreMaxSize == 20
checkEvery == 4096
PruneWindow == 5
EpsilonInverse == 10

RobotID == "robot"
NoError == "nil"
ContextCanceled == "context canceled"

----------------------------------------------------------------------------
(* Generic helpers *)

Min(a, b) == IF a < b THEN a ELSE b

RECURSIVE SumWeight(_)
SumWeight(s) == IF s = <<>> THEN 0 ELSE s[1].Weight + SumWeight(Tail(s))

RECURSIVE SumValue(_)
SumValue(s) == IF s = <<>> THEN 0 ELSE s[1].Value + SumValue(Tail(s))

Front(s) == SubSeq(s, 1, Len(s) - 1)

Last(s) == s[Len(s)]

\* The first index in lo..hi at which f is greatest: what a scan of lo..hi
\* that moves to an index only on a strictly greater value ends with.
RECURSIVE ArgMaxFirst(_, _, _)
ArgMaxFirst(f, lo, hi) ==
    IF lo >= hi THEN lo
    ELSE LET mid == (lo + hi) \div 2
             a == ArgMaxFirst(f, lo, mid)
             b == ArgMaxFirst(f, mid + 1, hi)
         IN IF f[b] > f[a] THEN b ELSE a

\* Running totals of a sequence of integers.
RECURSIVE Running(_)
Running(s) ==
    IF Len(s) <= 1 THEN s
    ELSE LET h == Len(s) \div 2
             l == Running(SubSeq(s, 1, h))
             r == Running(SubSeq(s, h + 1, Len(s)))
             off == l[h]
         IN l \o [k \in 1..Len(r) |-> r[k] + off]

\* model.DeliveryPlan{...}; OrdersNil tells a nil Orders slice from an empty one.
Plan(tw, tv, sel) ==
    [RobotID |-> RobotID, TotalWeight |-> tw, TotalValue |-> tv,
     Orders |-> sel, OrdersNil |-> FALSE]

\* Mutant of EmptyPlan: the early return leaves Orders nil.
EmptyPlanNilOrders ==
    [RobotID |-> RobotID, TotalWeight |-> 0, TotalValue |-> 0,
     Orders |-> <<>>, OrdersNil |-> TRUE]

\* model.DeliveryPlan{RobotID: robotID, Orders: make([]model.Order, 0)}
EmptyPlan == Plan(0, 0, <<>>)

\* model.DeliveryPlan{}: the zero value returned beside an error.
ZeroPlan ==
    [RobotID |-> "", TotalWeight |-> 0, TotalValue |-> 0,
     Orders |-> <<>>, OrdersNil |-> TRUE]

----------------------------------------------------------------------------
(* Sorting by value density *)

\* float64(a.Value)/float64(a.Weight) > float64(b.Value)/float64(b.Weight).
\* Weights are positive here.  For the integers of this model (far below
\* 2^26) two distinct quotients differ by much more than one unit in the
\* last place and equal quotients round to the same float64, so the float
\* comparison agrees with the exact comparison by cross-multiplication.
RatioGreater(a, b) == a.Value * b.Weight > b.Value * a.Weight

\* Inner loop of the insertion sort: the new last element moves towards the
\* front while it is "less" than (has a greater ratio than) its predecessor.
RECURSIVE InsertByRatio(_, _)
InsertByRatio(s, x) ==
    IF s = <<>> THEN <<x>>
    ELSE IF RatioGreater(x, Last(s))
         THEN Append(InsertByRatio(Front(s), x), Last(s))
         ELSE Append(s, x)

\* sort.Slice(s, func(i, j) bool { return ratio(i) > ratio(j) }).  For
\* slices of at most 12 elements (11 before Go 1.19) sort.Slice is an
\* insertion sort; the model sorts no more than that (see MaxHead, MaxPad)
\* but for TailInput, whose ratios are distinct, so that every sort gives
\* the one descending order.
RECURSIVE SortByRatio(_)
SortByRatio(s) ==
    IF s = <<>> THEN <<>>
    ELSE InsertByRatio(SortByRatio(Front(s)), Last(s))

----------------------------------------------------------------------------
(* Filter and partition (selectOrdersForDeliveryOptimized, first part) *)

\* Mutant of FilterFits: the filter keeps every order.
FilterFitsAll(os, cap) == SelectSeq(os, LAMBDA o : o.Weight >= 0)

\* Mutant of FilterFits: the filter also drops the orders of weight 0.
FilterFitsPositive(os, cap) ==
    SelectSeq(os, LAMBDA o : o.Weight > 0 /\ o.Weight <= cap)

\* for _, o := range orders { if o.Weight <= robotCapacity { filtered = append(filtered, o) } }
FilterFits(os, cap) == SelectSeq(os, LAMBDA o : o.Weight <= cap)

\* Orders of weight 0, in the order of the filtered list.
ZeroWeightOf(os) == SelectSeq(os, LAMBDA o : o.Weight = 0)

\* Orders of positive weight, in the order of the filtered list.
PositiveOf(os) == SelectSeq(os, LAMBDA o : o.Weight # 0)

\* Mutant of ChooseTier: the FPTAS takes its thresholds too (>= for >).
ChooseTierStrict(n, c) ==
    IF n <= GreedyMaxN \/ c <= GreedyMaxCap THEN "greedy"
    ELSE IF n <= CoreMaxN /\ c <= CoreMaxCap THEN "core"
    ELSE IF n >= FPTASMinN \/ c >= FPTASMinCap THEN "fptas"
    ELSE "exact"

\* First matching solver for n positive orders and capacity c.
ChooseTier(n, c) ==
    IF n <= GreedyMaxN \/ c <= GreedyMaxCap THEN "greedy"
    ELSE IF n <= CoreMaxN /\ c <= CoreMaxCap THEN "core"
    ELSE IF n > FPTASMinN \/ c > FPTASMinCap THEN "fptas"
    ELSE "exact"

----------------------------------------------------------------------------
(* Greedy solver *)

\* The fill loop: ratios from position k on, sel and currentWeight so far.
RECURSIVE GreedyFill(_, _, _, _, _)
GreedyFill(ratios, k, cap, sel, currentWeight) ==
    IF k > Len(ratios) THEN [selected |-> sel, currentWeight |-> currentWeight]
    ELSE IF currentWeight + ratios[k].Weight <= cap
         THEN GreedyFill(ratios, k + 1, cap, Append(sel, ratios[k]),
                         currentWeight + ratios[k].Weight)
         ELSE GreedyFill(ratios, k + 1, cap, sel, currentWeight)

\* selectOrdersGreedy: never reads ctx, always returns a nil error.
\* TotalValue is baseValue plus the values of the orders the loop adds;
\* TotalWeight is the loop's currentWeight.
selectOrdersGreedy(pos, zero, cap, baseValue) ==
    LET ratios == SortByRatio(SelectSeq(pos, LAMBDA o : o.Weight > 0))
        fill == GreedyFill(ratios, 1, cap, zero, 0)
        added == SubSeq(fill.selected, Len(zero) + 1, Len(fill.selected))
    IN Plan(fill.currentWeight, baseValue + SumValue(added), fill.selected)

----------------------------------------------------------------------------
(* Core solver *)

\* coreSize := n/3, at most 20; below 5 it becomes n.
CoreSize(n) ==
    LET third == n \div 3
        capped == IF third > CoreMaxSize THEN CoreMaxSize ELSE third
    IN IF capped < CoreMinSize THEN n ELSE capped

\* One pass of "for w := robotCapacity; w >= item.Weight; w--" for a core
\* item: d is dp before the pass, the result is dp and parent[i] after it.
\* The pass runs downwards and item.Weight > 0, so every dp[w-item.Weight]
\* it reads is still the value from before the pass.
CoreRelax(d, item, cap) ==
    LET hit == [w \in 0..cap |->
                   /\ w >= item.Weight
                   /\ d[w - item.Weight] + item.Value > d[w]]
    IN [dp |-> [w \in 0..cap |->
                   IF hit[w] THEN d[w - item.Weight] + item.Value ELSE d[w]],
        row |-> hit]

\* bestCap: for w := 0..cap { if dp[w] > dp[bestCap] { bestCap = w } }
CoreBestCap(d, cap) == ArgMaxFirst(d, 0, cap)

\* for i := len(coreItems)-1; i >= 0 && w > 0; i-- { if parent[i][w] {...} }
RECURSIVE CoreRestore(_, _, _, _, _)
CoreRestore(coreItems, par, i, w, sel) ==
    IF i < 0 \/ w <= 0 THEN sel
    ELSE IF par[i + 1][w]
         THEN CoreRestore(coreItems, par, i - 1, w - coreItems[i + 1].Weight,
                          Append(sel, coreItems[i + 1]))
         ELSE CoreRestore(coreItems, par, i - 1, w, sel)

\* for i := coreSize; i < len(positiveOrders) && remainingCap > 0; i++ {...}
RECURSIVE CoreTail(_, _, _, _)
CoreTail(pos, i, remainingCap, sel) ==
    IF i >= Len(pos) \/ remainingCap <= 0 THEN sel
    ELSE IF pos[i + 1].Weight <= remainingCap
         THEN CoreTail(pos, i + 1, remainingCap - pos[i + 1].Weight,
                       Append(sel, pos[i + 1]))
         ELSE CoreTail(pos, i + 1, remainingCap, sel)

\* selectOrdersCore after the item loop: best capacity, restore, greedy
\* tail, totals.  pos is positiveOrders as sorted, d and par the tables.
CoreAssemble(pos, zero, cap, baseValue, d, par) ==
    LET coreSize == CoreSize(Len(pos))
        coreItems == SubSeq(pos, 1, coreSize)
        bestCap == CoreBestCap(d, cap)
        restored == CoreRestore(coreItems, par, coreSize - 1, bestCap, zero)
        remainingCap == cap - SumWeight(restored)
        sel == CoreTail(pos, coreSize, remainingCap, restored)
    IN Plan(SumWeight(sel), baseValue + SumValue(sel), sel)

----------------------------------------------------------------------------
(* FPTAS solver *)

RECURSIVE MaxValueOf(_)
MaxValueOf(s) ==
    IF s = <<>> THEN 0
    ELSE LET m == MaxValueOf(Tail(s))
         IN IF s[1].Value > m THEN s[1].Value ELSE m

\* Mutant of ScaleK: the scaling factor forgets epsilon.
ScaleKNoEpsilon(pos) ==
    LET k == MaxValueOf(pos) \div Len(pos)
    IN IF k = 0 THEN 1 ELSE k

\* K := int(float64(maxValue) * epsilon / float64(n)) with epsilon = 0.1,
\* 1 when that is 0.  The float64 nearest to 0.1 lies above 0.1 by less than
\* 1e-17 and the exact quotient maxValue/(10 n) is either an integer or at
\* least 1/(10 n) away from one, so for the integers of this model the
\* truncated float result is the integer quotient maxValue \div (10 n).
ScaleK(pos) ==
    LET k == MaxValueOf(pos) \div (EpsilonInverse * Len(pos))
    IN IF k = 0 THEN 1 ELSE k

\* scaledOrders: a copy of positiveOrders with Value / K.
ScaledOrders(pos) ==
    LET K == ScaleK(pos)
    IN [p \in 1..Len(pos) |-> [pos[p] EXCEPT !.Value = pos[p].Value \div K]]

\* maxScaledValue: the sum of the scaled values.
MaxScaledValue(pos) == SumValue(ScaledOrders(pos))

\* dp before the item loop: robotCapacity+1 everywhere but dp[0] = 0.
FPTASInitDp(pos, cap) ==
    [v \in 0..MaxScaledValue(pos) |-> IF v = 0 THEN 0 ELSE cap + 1]

\* parent before the item loop: -1 everywhere.
FPTASInitParent(pos) ==
    [p \in 1..Len(pos) |-> [v \in 0..MaxScaledValue(pos) |-> -1]]

\* Mutant of FPTASRelax: the pass reads newDp, so that an order can be
\* taken again on top of itself, any number of times.
FPTASRelaxInPlace(d, order, maxScaled) ==
    LET least == [v \in 0..maxScaled |->
                     IF order.Value = 0 THEN d[v]
                     ELSE LET ws == {d[v - j * order.Value] + j * order.Weight :
                                        j \in 0..(v \div order.Value)}
                          IN CHOOSE w \in ws : \A u \in ws : w <= u]
    IN [dp |-> least,
        row |-> [v \in 0..maxScaled |-> IF least[v] < d[v] THEN 1 ELSE -1]]

\* One pass of "for v := order.Value; v <= maxScaledValue; v++" for a scaled
\* order: d is dp, which the pass only reads; the result is newDp and
\* parent[i] (1 where the order improved newDp[v], -1 elsewhere).
FPTASRelax(d, order, maxScaled) ==
    LET hit == [v \in 0..maxScaled |->
                   /\ v >= order.Value
                   /\ d[v - order.Value] + order.Weight < d[v]]
    IN [dp |-> [v \in 0..maxScaled |->
                   IF hit[v] THEN d[v - order.Value] + order.Weight ELSE d[v]],
        row |-> [v \in 0..maxScaled |-> IF hit[v] THEN 1 ELSE -1]]

\* bestValue: for v := 0..maxScaledValue { if dp[v] <= cap && v > bestValue {...} },
\* the greatest v with dp[v] <= cap, 0 if there is none.
FPTASBestValue(d, cap, maxScaled) ==
    LET feasible == SelectSeq([k \in 1..maxScaled + 1 |-> k - 1],
                              LAMBDA v : d[v] <= cap)
    IN IF feasible = <<>> THEN 0 ELSE Last(feasible)

\* for i := len(scaledOrders)-1; i >= 0 && v > 0; i-- { if parent[i][v] == 1 {...} }
RECURSIVE FPTASRestore(_, _, _, _, _, _)
\* Mutant of FPTASRestore: the plan takes the orders from scaledOrders.
RECURSIVE FPTASRestoreScaled(_, _, _, _, _, _)
FPTASRestoreScaled(pos, scaled, par, i, v, sel) ==
    IF i < 0 \/ v <= 0 THEN sel
    ELSE IF par[i + 1][v] = 1
         THEN FPTASRestoreScaled(pos, scaled, par, i - 1, v - scaled[i + 1].Value,
                                 Append(sel, scaled[i + 1]))
         ELSE FPTASRestoreScaled(pos, scaled, par, i - 1, v, sel)

FPTASRestore(pos, scaled, par, i, v, sel) ==
    IF i < 0 \/ v <= 0 THEN sel
    ELSE IF par[i + 1][v] = 1
         THEN FPTASRestore(pos, scaled, par, i - 1, v - scaled[i + 1].Value,
                           Append(sel, pos[i + 1]))
         ELSE FPTASRestore(pos, scaled, par, i - 1, v, sel)

\* selectOrdersFPTAS after the item loop: best value, restore, totals.
FPTASAssemble(pos, zero, cap, baseValue, d, par) ==
    LET scaled == ScaledOrders(pos)
        maxScaled == MaxScaledValue(pos)
        best == FPTASBestValue(d, cap, maxScaled)
        sel == FPTASRestore(pos, scaled, par, Len(pos) - 1, best, zero)
    IN Plan(SumWeight(sel), baseValue + SumValue(sel), sel)

----------------------------------------------------------------------------
(* Exact DP solver *)

\* remainingValue: the values of positiveOrders[i..i+4], as far as they exist.
RECURSIVE RemainingValue(_, _, _)
RemainingValue(pos, i, j) ==
    IF j >= Len(pos) \/ j >= i + PruneWindow THEN 0
    ELSE pos[j + 1].Value + RemainingValue(pos, i, j + 1)

\* "break": currentBest > 0 and currentBest+remainingValue < currentBest*11/10.
PruneBreak(pos, i, currentBest) ==
    /\ currentBest > 0
    /\ currentBest + RemainingValue(pos, i, i) < (currentBest * 11) \div 10

\* "continue": currentBest > 0 and v < currentBest/10.
PruneSkip(v, currentBest) ==
    /\ currentBest > 0
    /\ v < currentBest \div 10

\* Mutant of NextPoll: the inner loop polls every 2*checkEvery steps.
NextPollLate(steps0) == (steps0 \div (2 * checkEvery) + 1) * (2 * checkEvery)

\* steps++; if steps%checkEvery == 0 { select { case <-ctx.Done(): ... } }:
\* the step count of the first poll after steps0 steps.
NextPoll(steps0) == (steps0 \div checkEvery + 1) * checkEvery

\* Mutant of PrevIdx: the new node is chained to the path of its own cell.
PrevIdxOwnCell(bpi, c, w) == bpi[c]

\* prevIdx: bestPathIdx[currentCap-w], the head of the path that the cell
\* currentCap extends.
PrevIdx(bpi, c, w) == bpi[c - w]

\* The inner loop "for currentCap := effectiveCap; currentCap >= w; currentCap--"
\* for item i (Go index) of weight w > 0 and value v, from the cell hi down
\* to the next poll of the context or to the end of the loop, from bestValue
\* bv, bestPathIdx bpi, the arena ps and the step counter steps0.
\*   - The loop counts one step per cell; after each step it polls
\*     ctx.Done() when steps is a multiple of checkEvery.  pollCap is the
\*     cell of the first such poll; the loop is at a poll there (polled).
\*   - The loop runs downwards and w > 0, so bestValue[currentCap-w] and
\*     bestPathIdx[currentCap-w] are read before the loop writes them.
\*   - A cell that improves gets a new node at the end of the arena, so the
\*     nodes of one pass are in descending order of their cells.
ExactInner(bv, bpi, ps, steps0, i, w, v, effectiveCap, hi) ==
    LET pollCap == hi + 1 - (NextPoll(steps0) - steps0)
        polled == pollCap >= w
        lo == IF polled THEN pollCap ELSE w
        cells == [k \in 1..(hi - lo + 1) |-> hi + 1 - k]
        hit == [c \in 0..effectiveCap |->
                   /\ c >= lo
                   /\ c <= hi
                   /\ bv[c - w] + v > bv[c]]
        rank == Running([k \in 1..Len(cells) |-> IF hit[cells[k]] THEN 1 ELSE 0])
        hits == SelectSeq(cells, LAMBDA c : hit[c])
    IN [bestValue |-> [c \in 0..effectiveCap |->
                          IF hit[c] THEN bv[c - w] + v ELSE bv[c]],
        bestPathIdx |-> [c \in 0..effectiveCap |->
                            IF hit[c]
                            THEN Len(ps) + rank[hi + 1 - c] - 1
                            ELSE bpi[c]],
        paths |-> ps \o [k \in 1..Len(hits) |->
                            [itemIndex |-> i, prevIdx |-> PrevIdx(bpi, hits[k], w)]],
        steps |-> steps0 + (IF hi >= lo THEN hi - lo + 1 ELSE 0),
        polled |-> polled,
        currentCap |-> lo]

\* bestCap: for cap := 0..effectiveCap { if bestValue[cap] > maxValue {...} }
\* with maxValue and bestCap starting at 0 and bestValue never negative.
ExactBestCap(bv, effectiveCap) == ArgMaxFirst(bv, 0, effectiveCap)

\* selectedIndices: for idx := bestPathIdx[bestCap]; idx != -1; idx = paths[idx].prevIdx
RECURSIVE WalkPath(_, _)
WalkPath(ps, k) ==
    IF k = -1 THEN <<>>
    ELSE <<ps[k + 1].itemIndex>> \o WalkPath(ps, ps[k + 1].prevIdx)

\* for i := len(selectedIndices)-1; i >= 0; i-- { selected = append(selected, positiveOrders[selectedIndices[i]]) }
RECURSIVE Materialize(_, _, _, _)
Materialize(pos, selectedIndices, i, sel) ==
    IF i < 0 THEN sel
    ELSE Materialize(pos, selectedIndices, i - 1,
                     Append(sel, pos[selectedIndices[i + 1] + 1]))

\* fallbackIdx: the best single order by value, the lighter one on a tie.
RECURSIVE FallbackIdx(_, _, _, _)
FallbackIdx(pos, effectiveCap, i, fallbackIdx) ==
    IF i >= Len(pos) THEN fallbackIdx
    ELSE LET order == pos[i + 1]
             take ==
                /\ order.Weight <= effectiveCap
                /\ \/ fallbackIdx = -1
                   \/ order.Value > pos[fallbackIdx + 1].Value
                   \/ /\ order.Value = pos[fallbackIdx + 1].Value
                      /\ order.Weight < pos[fallbackIdx + 1].Weight
         IN FallbackIdx(pos, effectiveCap, i + 1, IF take THEN i ELSE fallbackIdx)

\* Mutant of EffectiveCap: the table is sized by the total weight alone.
EffectiveCapTotal(pos, cap) == SumWeight(pos)

\* effectiveCap := min(robotCapacity, total weight of positiveOrders).
EffectiveCap(pos, cap) == Min(cap, SumWeight(pos))

\* selectOrdersForDeliveryOptimized after the item loop: best cell, path
\* walk, fallback, totals.
ExactAssemble(pos, zero, cap, bv, bpi, ps) ==
    LET effectiveCap == EffectiveCap(pos, cap)
        bestCap == ExactBestCap(bv, effectiveCap)
        selectedIndices == WalkPath(ps, bpi[bestCap])
        walked == Materialize(pos, selectedIndices, Len(selectedIndices) - 1, zero)
        fallbackIdx == FallbackIdx(pos, effectiveCap, 0, -1)
        sel == IF Len(walked) = Len(zero) /\ fallbackIdx # -1
               THEN Append(walked, pos[fallbackIdx + 1])
               ELSE walked
    IN Plan(SumWeight(sel), SumValue(sel), sel)

----------------------------------------------------------------------------
(* Inputs of a call *)

\* Kinds of orders, as <<weight, value>>: free and valuable, light and
\* worthless, light and valuable, heavy and cheap.
Kinds == {<<0, 5>>, <<1, 0>>, <<1, 200>>, <<100, 5>>}

\* Capacities: not positive; below every weight but the light ones
\* (Greedy); the largest of the Core solver; the smallest of the Exact DP
\* for few orders; the smallest that forces the FPTAS.
Capacities == {-1, 0, 9, 200, 201, 501}

\* The order list with the given <<weight, value>> pairs; OrderID is the position.
MkOrders(ks) ==
    [p \in 1..Len(ks) |-> [OrderID |-> p, Weight |-> ks[p][1], Value |-> ks[p][2]]]

Heads == UNION {[1..n -> Kinds] : n \in 0..MaxHead}

Pads == UNION {{[p \in 1..n |-> k] : k \in Kinds} : n \in 0..MaxPad}

GeneratedInputs ==
    {[orders |-> MkOrders(h \o pd), capacity |-> c] :
        h \in Heads, pd \in Pads, c \in Capacities}

\* The inputs of robot_test.go.
TestBasic ==
    [orders |-> MkOrders(<< <<5, 10>>, <<4, 40>>, <<6, 30>> >>), capacity |-> 9]
TestNoOrders ==
    [orders |-> <<>>, capacity |-> 10]
TestZeroWeight ==
    [orders |-> MkOrders(<< <<0, 5>>, <<2, 3>>, <<3, 8>> >>), capacity |-> 2]
TestZeroValue ==
    [orders |-> MkOrders(<< <<3, 0>>, <<4, 0>> >>), capacity |-> 5]
TestContextCanceled ==
    [orders |-> MkOrders([p \in 1..5 |-> <<1, 1>>]), capacity |-> 3]

TestInputs ==
    {TestBasic, TestNoOrders, TestZeroWeight, TestZeroValue, TestContextCanceled}

\* An input of the Exact DP whose inner loop reaches a poll: nine light
\* orders of 500 cells each make 4500 steps, two heavy ones raise the total
\* weight above the capacity.
PollInput ==
    [orders |-> MkOrders([p \in 1..11 |-> IF p <= 2 THEN <<250, 5>> ELSE <<1, 200>>]),
     capacity |-> 500]

\* An input of the Exact DP where a cell is improved from a cell of another
\* value: the orders differ in weight, value and value per weight.
ChainInput ==
    [orders |-> MkOrders(<< <<2, 300>>, <<1, 200>>, <<3, 310>>, <<1, 0>>, <<2, 90>>,
                            <<0, 5>>, <<100, 5>> >>),
     capacity |-> 201]

\* An input of the Core solver with a core of 5 orders and a greedy tail:
\* a free order and 15 orders of weight 20+k and value (20+k)(30-k), k from
\* 15 down to 1, so that the ratios 30-k are distinct and ascend.
TailInput ==
    [orders |-> MkOrders(<< <<0, 5>> >> \o
                         [q \in 1..15 |-> <<36 - q, (36 - q) * (14 + q)>>]),
     capacity |-> 200]

Inputs == GeneratedInputs \cup TestInputs \cup {PollInput, ChainInput, TailInput}

----------------------------------------------------------------------------
(* The state machine *)

callVars == <<orders, robotCapacity, cancelledAtCall, tier, zeroWeightOrders,
              positiveOrders>>
tableVars == <<dp, parent>>
exactVars == <<bestValue, bestPathIdx, paths, steps>>
pollVars == <<currentCap, stepsAtPoll>>

\* TierSpec and PoolSpec at rest.
NoProbe == [n |-> 0, c |-> 0, tier |-> "unset"]
TierParked == probe = NoProbe
PoolParked ==
    /\ heap = <<>>
    /\ orderPool = {}
    /\ robot = <<>>



ShipParked ==
    /\ shipped = <<>>
    /\ txn = <<>>
    /\ assigned = <<>>

BatchParked ==
    /\ ordersLen = 0
    /\ goroutine = <<>>
    /\ semaphore = 0
    /\ wg = 0
    /\ mu = FALSE
    /\ allOrderIDs = <<>>
    /\ errCh = <<>>
    /\ insertedOrderIDs = <<>>
    /\ caller = <<>>

CacheParked ==
    /\ entries = <<>>
    /\ now = 0
    /\ reader = <<>>
    /\ emptyKeySet = FALSE

SideParked == ShipParked /\ BatchParked /\ CacheParked

OptInit ==
    /\ pc = "idle"
    /\ orders = <<>>
    /\ robotCapacity = 0
    /\ cancelled = FALSE
    /\ cancelledAtCall = FALSE
    /\ tier = "none"
    /\ zeroWeightOrders = <<>>
    /\ positiveOrders = <<>>
    /\ idx = 0
    /\ dp = <<>>
    /\ parent = <<>>
    /\ bestValue = <<>>
    /\ bestPathIdx = <<>>
    /\ paths = <<>>
    /\ steps = 0
    /\ currentCap = 0
    /\ stepsAtPoll = 0
    /\ stepsAtCancel = -1
    /\ plan = ZeroPlan
    /\ err = NoError

Init ==
    /\ OptInit
    /\ TierParked
    /\ PoolParked
    /\ SideParked

\* return plan, nil
ReturnPlan(p) ==
    /\ pc' = "done"
    /\ plan' = p
    /\ err' = NoError

\* Mutant of ReturnError: the error comes with the zero-weight orders
\* gathered so far.
ReturnErrorPartial ==
    /\ pc' = "done"
    /\ plan' = Plan(0, SumValue(zeroWeightOrders), zeroWeightOrders)
    /\ err' = ContextCanceled

\* return model.DeliveryPlan{}, ctx.Err()
ReturnError ==
    /\ pc' = "done"
    /\ plan' = ZeroPlan
    /\ err' = ContextCanceled

\* The context is cancelled (by its owner or by its deadline), at any time
\* before the call returns; a context cancelled before the call is the
\* pre-cancelled context of TestSelectOrdersForDeliveryContextCanceled.
\* Between two polls the code cannot tell when the context was cancelled:
\* stepsAtCancel is the step count right after the last poll or the
\* present one.
Cancel ==
    /\ ~cancelled
    /\ pc # "done"
    /\ cancelled' = TRUE
    /\ IF pc \in {"exact", "poll"}
       THEN \E s \in {stepsAtPoll, steps} : stepsAtCancel' = s
       ELSE stepsAtCancel' = -1
    /\ UNCHANGED <<pc, plan, err, idx, callVars, tableVars, exactVars, pollVars>>
    /\ UNCHANGED <<tierVars, poolVars, sideVars>>

\* selectOrdersForDeliveryOptimized from its entry to the first poll of the
\* context: the early returns, the filter, the partition, the choice of the
\* solver; the Greedy solver as a whole (it never polls); the tables of the
\* other solvers.
Call(in) ==
    LET cap == in.capacity
        filtered == FilterFits(in.orders, cap)
        zero == ZeroWeightOf(filtered)
        pos == PositiveOf(filtered)
        baseValue == SumValue(zero)
        t == ChooseTier(Len(pos), cap)
        sorted == SortByRatio(pos)
        effectiveCap == EffectiveCap(pos, cap)
    IN /\ pc = "idle"
       /\ orders' = in.orders
       /\ robotCapacity' = cap
       /\ cancelledAtCall' = cancelled
       /\ idx' = 0
       /\ steps' = 0
       /\ currentCap' = 0
       /\ stepsAtPoll' = 0
       /\ UNCHANGED <<cancelled, stepsAtCancel, tierVars, poolVars, sideVars>>
       /\ IF cap <= 0 \/ Len(in.orders) = 0 \/ Len(filtered) = 0
          THEN /\ ReturnPlan(EmptyPlan)
               /\ tier' = "none"
               /\ UNCHANGED <<zeroWeightOrders, positiveOrders, dp, parent,
                              bestValue, bestPathIdx, paths>>
          ELSE /\ zeroWeightOrders' = zero
               /\ positiveOrders' = IF t \in {"core", "exact"} /\ effectiveCap > 0
                                    THEN sorted ELSE pos
               /\ IF Len(pos) = 0
                  THEN /\ ReturnPlan(Plan(0, baseValue, zero))
                       /\ tier' = "none"
                       /\ UNCHANGED <<dp, parent, bestValue, bestPathIdx, paths>>
                  ELSE /\ tier' = t
                       /\ CASE t = "greedy" ->
                               /\ ReturnPlan(selectOrdersGreedy(pos, zero, cap, baseValue))
                               /\ UNCHANGED <<dp, parent, bestValue, bestPathIdx, paths>>
                            [] t = "core" ->
                               /\ pc' = "core"
                               /\ dp' = [w \in 0..cap |-> 0]
                               /\ parent' = [p \in 1..CoreSize(Len(pos)) |->
                                                [w \in 0..cap |-> FALSE]]
                               /\ UNCHANGED <<bestValue, bestPathIdx, paths, plan, err>>
                            [] t = "fptas" ->
                               /\ pc' = "fptas"
                               /\ dp' = FPTASInitDp(pos, cap)
                               /\ parent' = FPTASInitParent(pos)
                               /\ UNCHANGED <<bestValue, bestPathIdx, paths, plan, err>>
                            [] t = "exact" ->
                               IF effectiveCap <= 0
                               THEN /\ ReturnPlan(Plan(0, baseValue, zero))
                                    /\ UNCHANGED <<dp, parent, bestValue,
                                                   bestPathIdx, paths>>
                               ELSE /\ pc' = "exact"
                                    /\ bestValue' = [c \in 0..effectiveCap |-> 0]
                                    /\ bestPathIdx' = [c \in 0..effectiveCap |-> -1]
                                    /\ paths' = <<>>
                                    /\ UNCHANGED <<dp, parent, plan, err>>

\* selectOrdersCore: one round of the loop over coreItems.
CoreItem ==
    /\ pc = "core"
    /\ idx < CoreSize(Len(positiveOrders))
    /\ IF cancelled
       THEN /\ ReturnError
            /\ UNCHANGED <<idx, dp, parent>>
       ELSE LET r == CoreRelax(dp, positiveOrders[idx + 1], robotCapacity)
            IN /\ dp' = r.dp
               /\ parent' = [parent EXCEPT ![idx + 1] = r.row]
               /\ idx' = idx + 1
               /\ UNCHANGED <<pc, plan, err>>
    /\ UNCHANGED <<cancelled, stepsAtCancel, callVars, exactVars, pollVars>>
    /\ UNCHANGED <<tierVars, poolVars, sideVars>>

\* selectOrdersCore: from the end of the item loop to the return.
CoreReturn ==
    /\ pc = "core"
    /\ idx = CoreSize(Len(positiveOrders))
    /\ ReturnPlan(CoreAssemble(positiveOrders, zeroWeightOrders, robotCapacity,
                               SumValue(zeroWeightOrders), dp, parent))
    /\ UNCHANGED <<cancelled, stepsAtCancel, idx, callVars, tableVars, exactVars, pollVars>>
    /\ UNCHANGED <<tierVars, poolVars, sideVars>>

\* selectOrdersFPTAS: one round of the loop over scaledOrders.
FPTASItem ==
    /\ pc = "fptas"
    /\ idx < Len(positiveOrders)
    /\ IF cancelled
       THEN /\ ReturnError
            /\ UNCHANGED <<idx, dp, parent>>
       ELSE LET order == ScaledOrders(positiveOrders)[idx + 1]
                r == FPTASRelax(dp, order, MaxScaledValue(positiveOrders))
            IN /\ dp' = r.dp
               /\ parent' = [parent EXCEPT ![idx + 1] = r.row]
               /\ idx' = idx + 1
               /\ UNCHANGED <<pc, plan, err>>
    /\ UNCHANGED <<cancelled, stepsAtCancel, callVars, exactVars, pollVars>>
    /\ UNCHANGED <<tierVars, poolVars, sideVars>>

\* selectOrdersFPTAS: from the end of the item loop to the return.
FPTASReturn ==
    /\ pc = "fptas"
    /\ idx = Len(positiveOrders)
    /\ ReturnPlan(FPTASAssemble(positiveOrders, zeroWeightOrders, robotCapacity,
                                SumValue(zeroWeightOrders), dp, parent))
    /\ UNCHANGED <<cancelled, stepsAtCancel, idx, callVars, tableVars, exactVars, pollVars>>
    /\ UNCHANGED <<tierVars, poolVars, sideVars>>

\* Exact DP: one round of the loop over positiveOrders: the poll, the
\* "continue" of an order heavier than effectiveCap, the two prunings, the
\* inner loop as far as its next poll.  A "break" leaves the loop
\* (idx = len(positiveOrders)).
ExactItem ==
    /\ pc = "exact"
    /\ idx < Len(positiveOrders)
    /\ LET order == positiveOrders[idx + 1]
           effectiveCap == EffectiveCap(positiveOrders, robotCapacity)
           currentBest == bestValue[effectiveCap]
           st == ExactInner(bestValue, bestPathIdx, paths, steps, idx,
                            order.Weight, order.Value, effectiveCap, effectiveCap)
       IN IF cancelled
          THEN /\ ReturnError
               /\ UNCHANGED <<idx, exactVars, pollVars>>
          ELSE /\ stepsAtPoll' = steps
               /\ IF order.Weight > effectiveCap
                  THEN /\ idx' = idx + 1
                       /\ UNCHANGED <<pc, plan, err, exactVars, currentCap>>
                  ELSE IF PruneBreak(positiveOrders, idx, currentBest)
                  THEN /\ idx' = Len(positiveOrders)
                       /\ UNCHANGED <<pc, plan, err, exactVars, currentCap>>
                  ELSE IF PruneSkip(order.Value, currentBest)
                  THEN /\ idx' = idx + 1
                       /\ UNCHANGED <<pc, plan, err, exactVars, currentCap>>
                  ELSE /\ bestValue' = st.bestValue
                       /\ bestPathIdx' = st.bestPathIdx
                       /\ paths' = st.paths
                       /\ steps' = st.steps
                       /\ IF st.polled
                          THEN /\ pc' = "poll"
                               /\ currentCap' = st.currentCap
                               /\ UNCHANGED <<idx, plan, err>>
                          ELSE /\ idx' = idx + 1
                               /\ UNCHANGED <<pc, plan, err, currentCap>>
    /\ UNCHANGED <<cancelled, stepsAtCancel, callVars, tableVars>>
    /\ UNCHANGED <<tierVars, poolVars, sideVars>>

\* Exact DP: the poll of the inner loop (steps%checkEvery == 0) after the
\* cell currentCap, and the loop from the next cell to its next poll.
ExactPoll ==
    /\ pc = "poll"
    /\ LET order == positiveOrders[idx + 1]
           effectiveCap == EffectiveCap(positiveOrders, robotCapacity)
           st == ExactInner(bestValue, bestPathIdx, paths, steps, idx,
                            order.Weight, order.Value, effectiveCap, currentCap - 1)
       IN IF cancelled
          THEN /\ ReturnError
               /\ UNCHANGED <<idx, exactVars, pollVars>>
          ELSE /\ stepsAtPoll' = steps
               /\ bestValue' = st.bestValue
               /\ bestPathIdx' = st.bestPathIdx
               /\ paths' = st.paths
               /\ steps' = st.steps
               /\ IF st.polled
                  THEN /\ currentCap' = st.currentCap
                       /\ UNCHANGED <<pc, idx, plan, err>>
                  ELSE /\ pc' = "exact"
                       /\ idx' = idx + 1
                       /\ UNCHANGED <<plan, err, currentCap>>
    /\ UNCHANGED <<cancelled, stepsAtCancel, callVars, tableVars>>
    /\ UNCHANGED <<tierVars, poolVars, sideVars>>

\* Exact DP: from the end of the item loop to the return.
ExactReturn ==
    /\ pc = "exact"
    /\ idx = Len(positiveOrders)
    /\ ReturnPlan(ExactAssemble(positiveOrders, zeroWeightOrders, robotCapacity,
                                bestValue, bestPathIdx, paths))
    /\ UNCHANGED <<cancelled, stepsAtCancel, idx, callVars, tableVars, exactVars, pollVars>>
    /\ UNCHANGED <<tierVars, poolVars, sideVars>>

Next ==
    \/ pc = "idle" /\ \E in \in Inputs : Call(in)
    \/ Cancel
    \/ CoreItem
    \/ CoreReturn
    \/ FPTASItem
    \/ FPTASReturn
    \/ ExactItem
    \/ ExactPoll
    \/ ExactReturn

Spec == Init /\ [][Next]_vars

----------------------------------------------------------------------------
(* The solvers as whole runs, with a context that is never cancelled *)

\* selectOrdersCore: the loop over coreItems.
RECURSIVE CoreLoop(_, _, _, _, _)
CoreLoop(items, cap, i, d, par) ==
    IF i >= CoreSize(Len(items)) THEN [dp |-> d, parent |-> par]
    ELSE LET r == CoreRelax(d, items[i + 1], cap)
         IN CoreLoop(items, cap, i + 1, r.dp, [par EXCEPT ![i + 1] = r.row])

\* selectOrdersCore.
CoreRun(pos, zero, cap, baseValue) ==
    LET sorted == SortByRatio(pos)
        t == CoreLoop(sorted, cap, 0, [w \in 0..cap |-> 0],
                      [p \in 1..CoreSize(Len(pos)) |-> [w \in 0..cap |-> FALSE]])
    IN CoreAssemble(sorted, zero, cap, baseValue, t.dp, t.parent)

\* selectOrdersFPTAS: the loop over scaledOrders.
RECURSIVE FPTASLoop(_, _, _, _)
FPTASLoop(pos, i, d, par) ==
    IF i >= Len(pos) THEN [dp |-> d, parent |-> par]
    ELSE LET r == FPTASRelax(d, ScaledOrders(pos)[i + 1], MaxScaledValue(pos))
         IN FPTASLoop(pos, i + 1, r.dp, [par EXCEPT ![i + 1] = r.row])

\* selectOrdersFPTAS.
FPTASRun(pos, zero, cap, baseValue) ==
    LET t == FPTASLoop(pos, 0, FPTASInitDp(pos, cap), FPTASInitParent(pos))
    IN FPTASAssemble(pos, zero, cap, baseValue, t.dp, t.parent)

\* Exact DP: the inner loop of one item, through all its polls.
RECURSIVE ExactInnerLoop(_, _, _, _, _, _, _, _, _)
ExactInnerLoop(bv, bpi, ps, steps0, i, w, v, effectiveCap, hi) ==
    LET st == ExactInner(bv, bpi, ps, steps0, i, w, v, effectiveCap, hi)
    IN IF st.polled
       THEN ExactInnerLoop(st.bestValue, st.bestPathIdx, st.paths, st.steps,
                           i, w, v, effectiveCap, st.currentCap - 1)
       ELSE st

\* Exact DP: the loop over positiveOrders (sorted).
RECURSIVE ExactLoop(_, _, _, _, _, _, _)
ExactLoop(pos, effectiveCap, i, bv, bpi, ps, steps0) ==
    IF i >= Len(pos) THEN [bestValue |-> bv, bestPathIdx |-> bpi, paths |-> ps]
    ELSE LET order == pos[i + 1]
             currentBest == bv[effectiveCap]
             st == ExactInnerLoop(bv, bpi, ps, steps0, i, order.Weight,
                                  order.Value, effectiveCap, effectiveCap)
         IN IF order.Weight > effectiveCap
            THEN ExactLoop(pos, effectiveCap, i + 1, bv, bpi, ps, steps0)
            ELSE IF PruneBreak(pos, i, currentBest)
            THEN [bestValue |-> bv, bestPathIdx |-> bpi, paths |-> ps]
            ELSE IF PruneSkip(order.Value, currentBest)
            THEN ExactLoop(pos, effectiveCap, i + 1, bv, bpi, ps, steps0)
            ELSE ExactLoop(pos, effectiveCap, i + 1, st.bestValue,
                           st.bestPathIdx, st.paths, st.steps)

\* selectOrdersForDeliveryOptimized with memPool = nil
\* (selectOrdersForDelivery): the plan of an input.
PlanOf(in) ==
    LET cap == in.capacity
        filtered == FilterFits(in.orders, cap)
        zero == ZeroWeightOf(filtered)
        pos == PositiveOf(filtered)
        baseValue == SumValue(zero)
        t == ChooseTier(Len(pos), cap)
        sorted == SortByRatio(pos)
        effectiveCap == EffectiveCap(pos, cap)
        tables == ExactLoop(sorted, effectiveCap, 0,
                            [c \in 0..effectiveCap |-> 0],
                            [c \in 0..effectiveCap |-> -1], <<>>, 0)
    IN IF cap <= 0 \/ Len(in.orders) = 0 \/ Len(filtered) = 0 THEN EmptyPlan
       ELSE IF Len(pos) = 0 THEN Plan(0, baseValue, zero)
       ELSE CASE t = "greedy" -> selectOrdersGreedy(pos, zero, cap, baseValue)
              [] t = "core" -> CoreRun(pos, zero, cap, baseValue)
              [] t = "fptas" -> FPTASRun(pos, zero, cap, baseValue)
              [] t = "exact" ->
                    IF effectiveCap <= 0 THEN Plan(0, baseValue, zero)
                    ELSE ExactAssemble(sorted, zero, cap, tables.bestValue,
                                       tables.bestPathIdx, tables.paths)

----------------------------------------------------------------------------
(* The memory pool and the slices of []model.Order *)

\* Arrays of orders that the pool may hold at a time, and the addresses of
\* the model: the pooled arrays and one array per robot for a plan made
\* outside the pool.
MaxPooled == 4
Robots == {"r1", "r2"}
Addresses == 1..(MaxPooled + Cardinality(Robots))

\* A slice is the address of its backing array and its length; heap[a] is
\* the contents of the array a as far as a slice of the running call or of
\* a plan reaches: what lies beyond the length of every slice is no state,
\* as no slice is ever extended but by append (a pooled slice is cut to
\* [:0] when it is taken).  No list of the model is longer than the
\* capacity of a pooled slice (128), so that append never moves a slice to
\* a new array.
Slice(a, n) == [arr |-> a, len |-> n]

\* make([]model.Order, 0): an empty slice over no array.
EmptySlice == Slice(0, 0)

\* The elements s[0], ..., s[len-1] of a slice.
SliceRead(h, s) == IF s.arr = 0 THEN <<>> ELSE SubSeq(h[s.arr], 1, s.len)

\* append(s, o) within the capacity: o is written after the last element.
SliceAppend(h, s, o) ==
    [heap |-> [h EXCEPT ![s.arr] =
                  IF s.len < Len(@) THEN [@ EXCEPT ![s.len + 1] = o]
                  ELSE Append(@, o)],
     slice |-> Slice(s.arr, s.len + 1)]

\* The array of a slice is overwritten from its start (sort.Slice in place).
SliceWrite(h, s, xs) ==
    [h EXCEPT ![s.arr] = xs \o SubSeq(@, Len(xs) + 1, Len(@))]

\* Mutant of Taken: the slice keeps the length that the array was last
\* used with.
TakenWhole(h, a) == Slice(a, Len(h[a]))

\* memPool.orderSlices.Get().([]model.Order)[:0]: the slice over the array
\* a that Get returned, cut to length 0.
Taken(h, a) == Slice(a, 0)

\* Mutant of PoolTake: Get leaves the array in the pool.
PoolKeep(pool, a) == pool

\* sync.Pool.Get of a pooled array: the array leaves the pool.
PoolTake(pool, a) == pool \ {a}

\* Addresses in use: pooled, checked out by the running call, or held by a
\* plan of a request.
Referenced(pool, taken) ==
    pool \cup taken \cup {robot[r].plan.Orders.arr : r \in Robots}

\* The address of a new array (New of the pool, make of a solver).
FreshAddress(pool, taken) ==
    LET free == Addresses \ Referenced(pool, taken)
    IN CHOOSE a \in free : \A b \in free : a <= b

\* The pooled arrays that a plan of a request refers to.
Held(pool) == pool \cap {robot[r].plan.Orders.arr : r \in Robots}

\* memPool.orderSlices.Get(): any pooled array, or a new one (sync.Pool may
\* miss at any time) as long as the pool cannot outgrow MaxPooled.  The
\* pooled arrays that no plan refers to are alike (nothing of them is
\* state), so that the first of them stands for all.
GetChoices(pool, taken) ==
    LET spare == pool \ Held(pool)
    IN Held(pool)
       \cup {a \in spare : \A b \in spare : a <= b}
       \cup (IF Cardinality(pool \cup taken) < MaxPooled
             THEN {FreshAddress(pool, taken)} ELSE {})

\* The arrays as far as the plans of the requests rb reach.
Compact(h, rb) ==
    [a \in Addresses |->
        LET lens == {rb[r].plan.Orders.len : r \in {q \in Robots : rb[q].plan.Orders.arr = a}}
        IN IF lens = {} THEN <<>>
           ELSE SubSeq(h[a], 1, CHOOSE n \in lens : \A m \in lens : n >= m)]

\* for _, o := range orders { if o.Weight <= robotCapacity { filtered = append(filtered, o) } }
RECURSIVE FilterLoop(_, _, _, _, _)
FilterLoop(h, os, cap, i, f) ==
    IF i > Len(os) THEN [heap |-> h, filtered |-> f]
    ELSE IF os[i].Weight <= cap
         THEN LET r == SliceAppend(h, f, os[i])
              IN FilterLoop(r.heap, os, cap, i + 1, r.slice)
         ELSE FilterLoop(h, os, cap, i + 1, f)

\* for _, o := range orders (= filtered) { zeroWeightOrders or positiveOrders = append(..., o) }
\* Each round reads orders[i] from the array of filtered.
RECURSIVE PartitionLoop(_, _, _, _, _)
PartitionLoop(h, f, i, z, p) ==
    IF i > f.len THEN [heap |-> h, zero |-> z, positive |-> p]
    ELSE LET o == h[f.arr][i]
             r == SliceAppend(h, IF o.Weight = 0 THEN z ELSE p, o)
         IN IF o.Weight = 0
            THEN PartitionLoop(r.heap, f, i + 1, r.slice, p)
            ELSE PartitionLoop(r.heap, f, i + 1, z, r.slice)

\* selected = append(selected, xs...), xs read when the call is made.
RECURSIVE AppendAll(_, _, _, _)
AppendAll(h, s, xs, i) ==
    IF i > Len(xs) THEN [heap |-> h, slice |-> s]
    ELSE LET r == SliceAppend(h, s, xs[i])
         IN AppendAll(r.heap, r.slice, xs, i + 1)

\* What an array of intSlices or pathSlices may hold when Get returns it:
\* nothing (a new array) or the tables of an earlier call, here any values
\* in the first cells.
MaxStale == 2
StaleInts == [c \in 0..MaxStale |-> 1000]
StalePaths == [k \in 1..MaxStale |-> [itemIndex |-> 0, prevIdx |-> -1]]
StaleTables == {<< <<>>, <<>>, <<>> >>, <<StaleInts, StaleInts, StalePaths>>}

\* bestValue = Get()[:0]; for len(bestValue) <= effectiveCap { bestValue = append(bestValue, fill) }
\* over an array whose contents were stale.
SizeTable(stale, effectiveCap, fill) == [c \in 0..effectiveCap |-> fill]

\* The plan of a request: model.DeliveryPlan with Orders as a slice.
SlicePlan(tw, tv, s) == [TotalWeight |-> tw, TotalValue |-> tv, Orders |-> s]

NoPlan == SlicePlan(0, 0, EmptySlice)

\* What a call returns and leaves behind.
Outcome(h, pool, pln, e) ==
    [heap |-> h, orderPool |-> pool, plan |-> pln, err |-> e]

\* The pool after the deferred Put of the arrays gets that a call took,
\* one Get after the other.
RECURSIVE PoolAfter(_, _, _)
PoolAfter(pool, gets, i) ==
    IF i > Len(gets) THEN pool \cup {gets[k] : k \in 1..Len(gets)}
    ELSE PoolAfter(PoolTake(pool, gets[i]), gets, i + 1)

\* A solver that makes its own selected (Greedy, Core, FPTAS) returned the
\* plan pv: its orders are in a new array.
MadePlan(h, pool, gets, pv) ==
    LET made == FreshAddress(pool, {gets[k] : k \in 1..Len(gets)})
    IN Outcome([h EXCEPT ![made] = pv.Orders], PoolAfter(pool, gets, 1),
               SlicePlan(pv.TotalWeight, pv.TotalValue, Slice(made, Len(pv.Orders))),
               NoError)

\* The Exact DP of a call with the pool: the tables are two arrays of
\* intSlices (stale contents sv[1], sv[2]) and one of pathSlices (sv[3]),
\* the plan is the pooled slice selected (sel).  done: the context is
\* cancelled at the first poll.
PoolExact(h, pool, gets, sv, done, pos, sel, cap, totalValue) ==
    LET sorted == SortByRatio(SliceRead(h, pos))
        sortedHeap == SliceWrite(h, pos, sorted)
        effectiveCap == EffectiveCap(SliceRead(h, pos), cap)
        bv0 == SizeTable(sv[1], effectiveCap, 0)
        bpi0 == SizeTable(sv[2], effectiveCap, -1)
        tables == ExactLoop(sorted, effectiveCap, 0, bv0, bpi0, SubSeq(sv[3], 1, 0), 0)
        exact == ExactAssemble(sorted, SliceRead(sortedHeap, sel), cap,
                               tables.bestValue, tables.bestPathIdx, tables.paths)
        pool4 == PoolAfter(pool, gets, 1)
    IN IF effectiveCap <= 0
       THEN Outcome(h, pool4, SlicePlan(0, totalValue, sel), NoError)
       ELSE IF done
       THEN Outcome(sortedHeap, pool4, NoPlan, ContextCanceled)
       ELSE Outcome(SliceWrite(sortedHeap, sel, exact.Orders), pool4,
                    SlicePlan(exact.TotalWeight, exact.TotalValue,
                              Slice(sel.arr, Len(exact.Orders))),
                    NoError)

\* The call from the partition on: gets are the arrays of filtered,
\* zeroWeightOrders, positiveOrders and selected.
PoolSolve(h, pool, in, gets, f) ==
    LET cap == in.capacity
        pl == PartitionLoop(h, f, 1, Taken(h, gets[2]), Taken(h, gets[3]))
        sa == AppendAll(pl.heap, Taken(pl.heap, gets[4]), SliceRead(pl.heap, pl.zero), 1)
        zero == SliceRead(sa.heap, pl.zero)
        pos == SliceRead(sa.heap, pl.positive)
        totalValue == SumValue(zero)
        t == ChooseTier(Len(pos), cap)
        pool4 == PoolAfter(pool, gets, 1)
        Failed(hp) == Outcome(hp, pool4, NoPlan, ContextCanceled)
    IN IF pl.positive.len = 0
       THEN {Outcome(sa.heap, pool4, SlicePlan(0, totalValue, sa.slice), NoError)}
       ELSE CASE t = "greedy" ->
                 {MadePlan(sa.heap, pool, gets,
                           selectOrdersGreedy(pos, zero, cap, totalValue))}
              [] t = "core" ->
                 {Failed(SliceWrite(sa.heap, pl.positive, SortByRatio(pos))),
                  MadePlan(SliceWrite(sa.heap, pl.positive, SortByRatio(pos)),
                           pool, gets, CoreRun(pos, zero, cap, totalValue))}
              [] t = "fptas" ->
                 {Failed(sa.heap),
                  MadePlan(sa.heap, pool, gets, FPTASRun(pos, zero, cap, totalValue))}
              [] t = "exact" ->
                 {PoolExact(sa.heap, pool, gets, sv, done, pl.positive, sa.slice,
                            cap, totalValue) :
                     sv \in StaleTables, done \in BOOLEAN}

----------------------------------------------------------------------------
(* GenerateDeliveryPlan for concurrent requests that share the pool *)

DBError == "db error"

\* Requests that each robot makes.
MaxRequests == 2

\* The shipping orders that a request reads: a free order, a valuable one
\* and five worthless ones.
PoolOrders ==
    MkOrders(<< <<1, 200>>, <<0, 5>>, <<1, 0>>, <<1, 0>>, <<1, 0>>, <<1, 0>>, <<1, 0>> >>)

\* The capacity of its robot: none, and one for each solver (Greedy, Core,
\* Exact DP, FPTAS).
PoolCapacities == {0, 9, 21, 201, 501}

PoolInputs == {[orders |-> PoolOrders, capacity |-> c] : c \in PoolCapacities}

\* A request that has not begun.
IdleRobot ==
    [pc |-> "idle", orders |-> <<>>, capacity |-> 0, plan |-> NoPlan,
     err |-> NoError, picked |-> <<>>, issued |-> <<>>, updates |-> 0,
     failedAt |-> "none", result |-> "none", ids |-> <<>>, requests |-> 0]

\* orderIDs[i] = order.OrderID for the orders of a slice.
OrderIDs(h, s) == [i \in 1..s.len |-> SliceRead(h, s)[i].OrderID]

PoolInit ==
    /\ heap = [a \in Addresses |-> <<>>]
    /\ orderPool = {}
    /\ robot = [r \in Robots |-> IdleRobot]
    /\ OptInit
    /\ TierParked
    /\ SideParked

\* return nil, err: the transaction is rolled back.
Fail(r, stage, e) ==
    robot' = [robot EXCEPT ![r].pc = "returned", ![r].plan = NoPlan,
                           ![r].err = e, ![r].failedAt = stage,
                           ![r].result = "nil",
                           ![r].requests = IF stage = "fetch" THEN @ + 1 ELSE @]

\* GetShippingOrders returns an error.
FetchFails(r) ==
    /\ robot[r].pc = "idle"
    /\ robot[r].requests < MaxRequests
    /\ Fail(r, "fetch", DBError)
    /\ UNCHANGED <<heap, orderPool, optVars, tierVars, sideVars>>

\* selectOrdersForDeliveryOptimized returned out to the request of r.
Selected(r, in, out) ==
    /\ IF out.err = NoError
       THEN robot' = [robot EXCEPT
                         ![r].pc = "selected",
                         ![r].requests = @ + 1,
                         ![r].orders = in.orders,
                         ![r].capacity = in.capacity,
                         ![r].plan = out.plan,
                         ![r].picked = SliceRead(out.heap, out.plan.Orders)]
       ELSE robot' = [robot EXCEPT
                         ![r].pc = "returned",
                         ![r].requests = @ + 1,
                         ![r].orders = in.orders,
                         ![r].capacity = in.capacity,
                         ![r].plan = NoPlan,
                         ![r].err = out.err,
                         ![r].failedAt = "select",
                         ![r].result = "nil"]
    /\ heap' = Compact(out.heap, robot')
    /\ orderPool' = out.orderPool

\* GetShippingOrders and selectOrdersForDeliveryOptimized(ctx, orders,
\* robotID, capacity, s.memPool) as one step, for each way the Get of the
\* pool can go and for a context cancelled or not when the solver first
\* polls it.  Two calls that run at a time hold different arrays, so that
\* their steps do not interfere.  The deferred Put give every array back
\* when the call returns, whatever it returns.
Request(r, in) ==
    /\ robot[r].pc = "idle"
    /\ robot[r].requests < MaxRequests
    /\ IF in.capacity <= 0 \/ Len(in.orders) = 0
       THEN Selected(r, in, Outcome(heap, orderPool, NoPlan, NoError))
       ELSE \E a1 \in GetChoices(orderPool, {}) :
              LET fl == FilterLoop(heap, in.orders, in.capacity, 1, Taken(heap, a1))
                  p1 == PoolTake(orderPool, a1)
              IN IF fl.filtered.len = 0
                 THEN Selected(r, in, Outcome(fl.heap, PoolAfter(orderPool, <<a1>>, 1),
                                              NoPlan, NoError))
                 ELSE \E a2 \in GetChoices(p1, {a1}) :
                      \E a3 \in GetChoices(PoolTake(p1, a2), {a1, a2}) :
                      \E a4 \in GetChoices(PoolTake(PoolTake(p1, a2), a3), {a1, a2, a3}) :
                      \E out \in PoolSolve(fl.heap, orderPool, in, <<a1, a2, a3, a4>>,
                                           fl.filtered) :
                         Selected(r, in, out)
    /\ UNCHANGED <<optVars, tierVars, sideVars>>

\* if len(plan.Orders) > 0 { UpdateStatuses(ctx, orderIDs, "delivering") }
\* with the order IDs read from plan.Orders; the update may fail.
Update(r) ==
    /\ robot[r].pc = "selected"
    /\ \/ /\ robot[r].plan.Orders.len > 0
          /\ robot' = [robot EXCEPT ![r].pc = "updated",
                                    ![r].issued = OrderIDs(heap, robot[r].plan.Orders),
                                    ![r].updates = @ + 1]
       \/ /\ robot[r].plan.Orders.len > 0
          /\ robot' = [robot EXCEPT ![r].pc = "returned", ![r].plan = NoPlan,
                                    ![r].err = DBError, ![r].failedAt = "update",
                                    ![r].updates = @ + 1, ![r].result = "nil"]
       \/ /\ robot[r].plan.Orders.len = 0
          /\ robot' = [robot EXCEPT ![r].pc = "updated"]
    /\ heap' = Compact(heap, robot')
    /\ UNCHANGED <<orderPool, optVars, tierVars, sideVars>>

\* ExecTx commits and GenerateDeliveryPlan returns &plan, or the commit
\* fails and it returns nil.
Commit(r) ==
    /\ robot[r].pc = "updated"
    /\ \/ robot' = [robot EXCEPT ![r].pc = "returned", ![r].result = "plan",
                                 ![r].ids = OrderIDs(heap, robot[r].plan.Orders)]
       \/ Fail(r, "commit", DBError)
    /\ heap' = Compact(heap, robot')
    /\ UNCHANGED <<orderPool, optVars, tierVars, sideVars>>

\* The caller is done with the plan.
Respond(r) ==
    /\ robot[r].pc = "returned"
    /\ robot' = [robot EXCEPT ![r] = [IdleRobot EXCEPT !.requests = robot[r].requests]]
    /\ heap' = Compact(heap, robot')
    /\ UNCHANGED <<orderPool, optVars, tierVars, sideVars>>

PoolNext ==
    \E r \in Robots :
        \/ FetchFails(r)
        \/ \E in \in PoolInputs : Request(r, in)
        \/ Update(r)
        \/ Commit(r)
        \/ Respond(r)

PoolSpec == PoolInit /\ [][PoolNext]_vars

----------------------------------------------------------------------------
(* The choice of the solver on a grid of sizes and capacities *)

\* Bounds of the grid of (n, capacity) on which the choice of the solver is
\* probed: every threshold of the code lies inside it.
MaxTierN == 102
MaxTierCap == 502

\* The solver is chosen for len(positiveOrders) > 0 and robotCapacity > 0:
\* the call has returned before for anything else.
TierInit ==
    /\ \E n \in 1..MaxTierN, c \in 1..MaxTierCap :
          probe = [n |-> n, c |-> c, tier |-> "unset"]
    /\ OptInit
    /\ PoolParked
    /\ SideParked

\* The if-chain on n := len(positiveOrders) and robotCapacity.
Choose ==
    /\ probe.tier = "unset"
    /\ probe' = [probe EXCEPT !.tier = ChooseTier(probe.n, probe.c)]
    /\ UNCHANGED <<optVars, poolVars, sideVars>>

TierNext == Choose

TierSpec == TierInit /\ [][TierNext]_vars

----------------------------------------------------------------------------
(* GenerateDeliveryPlan for concurrent requests on the orders table *)

\* Transactions that each robot runs.
MaxCalls == 2

\* The rows of orders joined with products, as <<weight, value>>; the
\* order id is the position.
ShipOrders == MkOrders(<< <<1, 200>>, <<1, 100>>, <<2, 50>> >>)

ShipIDs == 1..Len(ShipOrders)

\* The capacities of the robots.
ShipCapacities == {1, 3}

\* A request outside a transaction.
IdleTxn == [pc |-> "idle", ids |-> {}, calls |-> 0]

ShipInit ==
    /\ shipped = [o \in ShipIDs |-> "shipping"]
    /\ txn = [r \in Robots |-> IdleTxn]
    /\ assigned = [o \in ShipIDs |-> 0]
    /\ OptInit
    /\ TierParked
    /\ PoolParked
    /\ BatchParked
    /\ CacheParked

\* SELECT ... WHERE o.shipped_status = 'shipping': a read without a lock of
\* what is committed.
GetShippingOrders == SelectSeq(ShipOrders, LAMBDA o : shipped[o.OrderID] = "shipping")

\* ExecTx begins a transaction, GetShippingOrders reads the shipping orders
\* and selectOrdersForDeliveryOptimized selects the plan.
Plans(r, cap) ==
    /\ txn[r].pc = "idle"
    /\ txn[r].calls < MaxCalls
    /\ LET selected == PlanOf([orders |-> GetShippingOrders, capacity |-> cap]).Orders
       IN txn' = [txn EXCEPT ![r].pc = "selected",
                             ![r].calls = @ + 1,
                             ![r].ids = {selected[p].OrderID : p \in 1..Len(selected)}]
    /\ UNCHANGED <<shipped, assigned, optVars, tierVars, poolVars, batchVars, cacheVars>>

\* UPDATE orders SET shipped_status = 'delivering' WHERE order_id IN (ids):
\* the statement waits for the rows that another transaction has updated
\* and not yet committed; it asks nothing of the status of its rows.
Ships(r) ==
    /\ txn[r].pc = "selected"
    /\ \A q \in Robots \ {r} : txn[q].pc = "updated" => txn[q].ids \cap txn[r].ids = {}
    /\ txn' = [txn EXCEPT ![r].pc = "updated"]
    /\ UNCHANGED <<shipped, assigned, optVars, tierVars, poolVars, batchVars, cacheVars>>

\* ExecTx commits and GenerateDeliveryPlan returns the plan.
Commits(r) ==
    /\ txn[r].pc = "updated"
    /\ shipped' = [o \in ShipIDs |-> IF o \in txn[r].ids THEN "delivering" ELSE shipped[o]]
    /\ assigned' = [o \in ShipIDs |-> IF o \in txn[r].ids THEN assigned[o] + 1 ELSE assigned[o]]
    /\ txn' = [txn EXCEPT ![r].pc = "idle", ![r].ids = {}]
    /\ UNCHANGED <<optVars, tierVars, poolVars, batchVars, cacheVars>>

\* A step fails or the deadline passes: ExecTx rolls back and
\* GenerateDeliveryPlan returns nil.
RollsBack(r) ==
    /\ txn[r].pc \in {"selected", "updated"}
    /\ txn' = [txn EXCEPT ![r].pc = "idle", ![r].ids = {}]
    /\ UNCHANGED <<shipped, assigned, optVars, tierVars, poolVars, batchVars, cacheVars>>

ShipNext ==
    \E r \in Robots :
        \/ \E cap \in ShipCapacities : Plans(r, cap)
        \/ Ships(r)
        \/ Commits(r)
        \/ RollsBack(r)

ShipSpec == ShipInit /\ [][ShipNext]_vars

----------------------------------------------------------------------------
(* createOrdersInBatches *)

\* Batches of the largest call.
MaxBatches == 5

batchSize == 1000

maxConcurrency == 4

\* len(orders) of the calls: no order, one full batch, and full batches
\* followed by a batch of one order.
BatchLens == {0, batchSize} \cup {k * batchSize + 1 : k \in 0..(MaxBatches - 1)}

\* "for i := 0; i < len(orders); i += batchSize": the batches orders[i:end].
RECURSIVE SplitBatches(_, _)
SplitBatches(n, i) ==
    IF i < n
    THEN <<[first |-> i, end |-> Min(i + batchSize, n)]>> \o SplitBatches(n, i + batchSize)
    ELSE <<>>

batches == SplitBatches(ordersLen, 0)

\* The IDs CreateBulk returns for a batch: one for each order of the batch,
\* no ID for two orders.  A run of IDs is written as the orders it is for.
BatchOrderIDs(b) == <<batches[b]>>

\* *insertedOrderIDs when createOrdersInBatches is called: nil as in
\* CreateOrders, or the ID of an earlier order.
PriorOrderIDs == {<<>>, <<[first |-> -1, end |-> 0]>>}

BatchInit ==
    /\ ordersLen \in BatchLens
    /\ goroutine = [b \in 1..Len(batches) |-> [pc |-> "none", result |-> "none", seen |-> <<>>]]
    /\ semaphore = 0
    /\ wg = 0
    /\ mu = FALSE
    /\ allOrderIDs = <<>>
    /\ errCh = <<>>
    /\ insertedOrderIDs \in PriorOrderIDs
    /\ caller = [pc |-> "spawn", i |-> 0, err |-> NoError]
    /\ OptInit
    /\ TierParked
    /\ PoolParked
    /\ ShipParked
    /\ CacheParked

\* A send to a channel of capacity cap proceeds.
ChanRoom(length, cap) == length < cap

\* mu.Lock() that excludes nobody.
MuIgnored(m) == TRUE

\* mu.Lock() proceeds.
MuFree(m) == ~m

\* wg.Wait() that waits for nobody.
WaitSkipped(counter) == TRUE

\* wg.Wait() proceeds.
WaitDone(counter) == counter = 0

\* "wg.Add(1); go func(batchOrders []model.Order) {...}(batch)"
Spawn ==
    /\ caller.pc = "spawn"
    /\ caller.i < Len(batches)
    /\ wg' = wg + 1
    /\ goroutine' = [goroutine EXCEPT ![caller.i + 1].pc = "start"]
    /\ caller' = [caller EXCEPT !.i = @ + 1]
    /\ UNCHANGED <<ordersLen, semaphore, mu, allOrderIDs, errCh, insertedOrderIDs>>
    /\ UNCHANGED <<optVars, tierVars, poolVars, shipVars, cacheVars>>

\* "semaphore <- struct{}{}"
Acquire(b) ==
    /\ goroutine[b].pc = "start"
    /\ ChanRoom(semaphore, maxConcurrency)
    /\ semaphore' = semaphore + 1
    /\ goroutine' = [goroutine EXCEPT ![b].pc = "held"]
    /\ UNCHANGED <<ordersLen, wg, mu, allOrderIDs, errCh, insertedOrderIDs, caller>>
    /\ UNCHANGED <<optVars, tierVars, poolVars, shipVars, cacheVars>>

\* "batchOrderIDs, err := txStore.OrderRepo.CreateBulk(ctx, batchOrders)"
CreateBulk(b, failed) ==
    /\ goroutine[b].pc = "held"
    /\ goroutine' = [goroutine EXCEPT ![b].pc = IF failed THEN "failed" ELSE "inserted",
                                      ![b].result = IF failed THEN "failed" ELSE "inserted"]
    /\ UNCHANGED <<ordersLen, semaphore, wg, mu, allOrderIDs, errCh, insertedOrderIDs, caller>>
    /\ UNCHANGED <<optVars, tierVars, poolVars, shipVars, cacheVars>>

\* "errCh <- err; return"
SendError(b) ==
    /\ goroutine[b].pc = "failed"
    /\ ChanRoom(Len(errCh), Len(batches))
    /\ errCh' = Append(errCh, DBError)
    /\ goroutine' = [goroutine EXCEPT ![b].pc = "exit"]
    /\ UNCHANGED <<ordersLen, semaphore, wg, mu, allOrderIDs, insertedOrderIDs, caller>>
    /\ UNCHANGED <<optVars, tierVars, poolVars, shipVars, cacheVars>>

\* "mu.Lock()" and the read of allOrderIDs by append.
Lock(b) ==
    /\ goroutine[b].pc = "inserted"
    /\ MuFree(mu)
    /\ mu' = TRUE
    /\ goroutine' = [goroutine EXCEPT ![b].pc = "locked", ![b].seen = allOrderIDs]
    /\ UNCHANGED <<ordersLen, semaphore, wg, allOrderIDs, errCh, insertedOrderIDs, caller>>
    /\ UNCHANGED <<optVars, tierVars, poolVars, shipVars, cacheVars>>

\* The assignment of "allOrderIDs = append(allOrderIDs, batchOrderIDs...)"
\* and "mu.Unlock()".
Unlock(b) ==
    /\ goroutine[b].pc = "locked"
    /\ allOrderIDs' = goroutine[b].seen \o BatchOrderIDs(b)
    /\ mu' = FALSE
    /\ goroutine' = [goroutine EXCEPT ![b].pc = "exit", ![b].seen = <<>>]
    /\ UNCHANGED <<ordersLen, semaphore, wg, errCh, insertedOrderIDs, caller>>
    /\ UNCHANGED <<optVars, tierVars, poolVars, shipVars, cacheVars>>

\* The deferred calls: "<-semaphore", then "wg.Done()".
Exit(b) ==
    /\ goroutine[b].pc = "exit"
    /\ semaphore' = semaphore - 1
    /\ wg' = wg - 1
    /\ goroutine' = [goroutine EXCEPT ![b].pc = "done"]
    /\ UNCHANGED <<ordersLen, mu, allOrderIDs, errCh, insertedOrderIDs, caller>>
    /\ UNCHANGED <<optVars, tierVars, poolVars, shipVars, cacheVars>>

\* "wg.Wait(); close(errCh)", the loop over errCh and the return.
Return ==
    /\ caller.pc = "spawn"
    /\ caller.i = Len(batches)
    /\ WaitDone(wg)
    /\ IF errCh # <<>>
       THEN /\ caller' = [caller EXCEPT !.pc = "returned", !.err = Head(errCh)]
            /\ UNCHANGED insertedOrderIDs
       ELSE /\ caller' = [caller EXCEPT !.pc = "returned", !.err = NoError]
            /\ insertedOrderIDs' = allOrderIDs
    /\ UNCHANGED <<ordersLen, goroutine, semaphore, wg, mu, allOrderIDs, errCh>>
    /\ UNCHANGED <<optVars, tierVars, poolVars, shipVars, cacheVars>>

BatchNext ==
    \/ Spawn
    \/ \E b \in DOMAIN goroutine :
        \/ Acquire(b)
        \/ \E failed \in BOOLEAN : CreateBulk(b, failed)
        \/ SendError(b)
        \/ Lock(b)
        \/ Unlock(b)
        \/ Exit(b)
    \/ Return

BatchSpec == BatchInit /\ [][BatchNext]_vars

\* The scheduler runs a goroutine that can take a step, and CreateBulk
\* returns.
BatchLiveSpec == BatchSpec /\ WF_vars(BatchNext)

----------------------------------------------------------------------------
(* sessionCache and userCache *)

\* Size of the cache (1000 for the sessions, 1024 or AUTH_USER_CACHE_SIZE
\* for the users).
maxEntries == 2

\* Life of an entry in ticks of the clock.
ttl == 1

\* Last tick of the clock.
MaxTime == 3

\* The session IDs or user names that are asked for.
CacheKeys == {"", "a", "b", "c"}

\* userID of set: 0 is not cached.  (For the users: user == nil or not.)
CacheUserIDs == {0, 7}

Threads == {"t1", "t2"}

\* A thread outside get.
IdleReader == [pc |-> "idle", key |-> "", ok |-> FALSE, expiresAt |-> 0]

CacheInit ==
    /\ entries = <<>>
    /\ now = 0
    /\ reader = [t \in Threads |-> IdleReader]
    /\ emptyKeySet = FALSE
    /\ OptInit
    /\ TierParked
    /\ PoolParked
    /\ ShipParked
    /\ BatchParked

\* delete(c.entries, key)
Delete(e, key) == [k \in DOMAIN e \ {key} |-> e[k]]

\* now.After(expiresAt)
After(t, expiresAt) == t > expiresAt

evictExpiredLocked(e) ==
    [k \in {j \in DOMAIN e : ~After(now, e[j].expiresAt)} |-> e[k]]

\* The orders in which "range c.entries" may visit the keys.
RangeOrders(e) ==
    {order \in [1..Cardinality(DOMAIN e) -> DOMAIN e] :
        \A i, j \in DOMAIN order : order[i] = order[j] => i = j}

\* The loop of evictOldestLocked from position i of order, with the locals
\* oldestKey and oldestTime: the value of oldestKey after the loop.
RECURSIVE OldestKey(_, _, _, _, _)
OldestKey(e, order, i, oldestKey, oldestTime) ==
    IF i > Len(order) THEN oldestKey
    ELSE IF oldestKey = "" \/ e[order[i]].expiresAt < oldestTime
         THEN OldestKey(e, order, i + 1, order[i], e[order[i]].expiresAt)
         ELSE OldestKey(e, order, i + 1, oldestKey, oldestTime)

\* c.entries after evictOldestLocked, for each order of the range.
evictOldestLocked(e) ==
    {LET oldestKey == OldestKey(e, order, 1, "", 0)
     IN IF oldestKey # "" THEN Delete(e, oldestKey) ELSE e : order \in RangeOrders(e)}

\* c.entries before the insertion of set.
Evicted(e) ==
    IF Cardinality(DOMAIN e) >= maxEntries
    THEN LET live == evictExpiredLocked(e)
         IN IF Cardinality(DOMAIN live) >= maxEntries
            THEN evictOldestLocked(live)
            ELSE {live}
    ELSE {e}

\* set(key, userID), under c.mx.Lock().
Set(key, userID) ==
    /\ IF userID = 0
       THEN UNCHANGED <<entries, emptyKeySet>>
       ELSE /\ \E e \in Evicted(entries) :
                 entries' = [k \in DOMAIN e \cup {key} |->
                                IF k = key
                                THEN [userID |-> userID, expiresAt |-> now + ttl]
                                ELSE e[k]]
            /\ emptyKeySet' = (emptyKeySet \/ key = "")
    /\ UNCHANGED <<now, reader>>
    /\ UNCHANGED <<optVars, tierVars, poolVars, shipVars, batchVars>>

\* get: "entry, ok := c.entries[key]" under c.mx.RLock().
GetRead(t, key) ==
    /\ reader[t].pc = "idle"
    /\ reader' = [reader EXCEPT ![t] =
                    [pc |-> "read", key |-> key, ok |-> key \in DOMAIN entries,
                     expiresAt |-> IF key \in DOMAIN entries THEN entries[key].expiresAt ELSE 0]]
    /\ UNCHANGED <<entries, now, emptyKeySet>>
    /\ UNCHANGED <<optVars, tierVars, poolVars, shipVars, batchVars>>

\* get: "if !ok || time.Now().After(entry.expiresAt)" and the returns that
\* delete nothing.
GetCheck(t) ==
    /\ reader[t].pc = "read"
    /\ reader' = [reader EXCEPT ![t] =
                    IF reader[t].ok /\ After(now, reader[t].expiresAt)
                    THEN [reader[t] EXCEPT !.pc = "delete"]
                    ELSE IdleReader]
    /\ UNCHANGED <<entries, now, emptyKeySet>>
    /\ UNCHANGED <<optVars, tierVars, poolVars, shipVars, batchVars>>

\* get: "delete(c.entries, key)" under c.mx.Lock(), and "return 0".
GetDelete(t) ==
    /\ reader[t].pc = "delete"
    /\ entries' = Delete(entries, reader[t].key)
    /\ reader' = [reader EXCEPT ![t] = IdleReader]
    /\ UNCHANGED <<now, emptyKeySet>>
    /\ UNCHANGED <<optVars, tierVars, poolVars, shipVars, batchVars>>

\* The clock advances.
Tick ==
    /\ now < MaxTime
    /\ now' = now + 1
    /\ UNCHANGED <<entries, reader, emptyKeySet>>
    /\ UNCHANGED <<optVars, tierVars, poolVars, shipVars, batchVars>>

CacheNext ==
    \/ \E key \in CacheKeys, userID \in CacheUserIDs : Set(key, userID)
    \/ \E t \in Threads :
        \/ \E key \in CacheKeys : GetRead(t, key)
        \/ GetCheck(t)
        \/ GetDelete(t)
    \/ Tick

CacheSpec == CacheInit /\ [][CacheNext]_vars

----------------------------------------------------------------------------
(* Vocabulary of the properties *)

\* The call has returned.
Returned == pc = "done"

\* The call has returned a plan and no error.
ReturnedPlan == pc = "done" /\ err = NoError

RECURSIVE WeightSum(_)
WeightSum(s) == IF Len(s) = 0 THEN 0 ELSE WeightSum(Front(s)) + Last(s).Weight

RECURSIVE ValueSum(_)
ValueSum(s) == IF Len(s) = 0 THEN 0 ELSE ValueSum(Front(s)) + Last(s).Value

\* The greatest total value of a set of the orders os[k..] of total weight
\* at most capLeft.
RECURSIVE BestFrom(_, _, _)
BestFrom(os, k, capLeft) ==
    IF k > Len(os) THEN 0
    ELSE LET skip == BestFrom(os, k + 1, capLeft)
             take == os[k].Value + BestFrom(os, k + 1, capLeft - os[k].Weight)
         IN IF os[k].Weight <= capLeft /\ take > skip THEN take ELSE skip

Optimum(os, cap) == BestFrom(os, 1, cap)

PlanIDs == [p \in 1..Len(plan.Orders) |-> plan.Orders[p].OrderID]

InputZeroWeight == SelectSeq(orders, LAMBDA o : o.Weight = 0)

InputPositive == SelectSeq(orders, LAMBDA o : o.Weight > 0)

PlanPositive == SelectSeq(plan.Orders, LAMBDA o : o.Weight > 0)

\* capacity > 0 and at least one order of positive weight fits.
NonTrivialInput ==
    /\ robotCapacity > 0
    /\ \E p \in 1..Len(orders) :
          orders[p].Weight > 0 /\ orders[p].Weight <= robotCapacity

\* No order of the input fits the capacity.
NothingFits == \A p \in 1..Len(orders) : orders[p].Weight > robotCapacity

\* The order at position p of the input is not in the plan.
LeftOut(p) == \A q \in 1..Len(plan.Orders) : plan.Orders[q].OrderID # p

----------------------------------------------------------------------------
(* Properties *)

\* C1: a plan returned without error has TotalWeight equal to the sum of
\* the weights of its orders and TotalValue equal to the sum of their
\* values, in every solver tier.  (Violated: Core and FPTAS count the value
\* of the zero-weight orders twice.)
C1_TotalsMatchOrders ==
    ReturnedPlan =>
        /\ plan.TotalWeight = WeightSum(plan.Orders)
        /\ plan.TotalValue = ValueSum(plan.Orders)

\* C2: with capacity > 0 the orders of the returned plan weigh at most
\* capacity in total, and so does plan.TotalWeight, in every solver tier.
C2_WeightWithinCapacity ==
    (Returned /\ robotCapacity > 0) =>
        /\ WeightSum(plan.Orders) <= robotCapacity
        /\ plan.TotalWeight <= robotCapacity

\* The Exact DP returned a plan that leaves out an order which fits the
\* capacity alone but not beside the plan.
C2_Witness ==
    /\ ReturnedPlan
    /\ tier = "exact"
    /\ \E p \in 1..Len(orders) :
          /\ LeftOut(p)
          /\ orders[p].Weight <= robotCapacity
          /\ WeightSum(plan.Orders) + orders[p].Weight > robotCapacity

\* C3: when the Exact DP is the solver, the total value of the returned
\* plan is the greatest total value of a set of input orders of total
\* weight at most capacity.  (Violated: the pruning skips orders that
\* would still fit.)
C3_ExactIsOptimal ==
    (ReturnedPlan /\ tier = "exact") =>
        plan.TotalValue = Optimum(orders, robotCapacity)

\* C4: a call made with a context that is already cancelled, on a
\* non-trivial input, returns the cancellation error and no plan, whatever
\* the solver.  (Violated: the Greedy solver never polls the context.)
C4_PreCancelledReturnsError ==
    (Returned /\ cancelledAtCall /\ NonTrivialInput) =>
        /\ err = ContextCanceled
        /\ plan.Orders = <<>>

\* C5: with capacity > 0, a returned plan starts with all the zero-weight
\* orders of the input, in their input order, and every order after them
\* has positive weight.
C5_ZeroWeightFirst ==
    (ReturnedPlan /\ robotCapacity > 0) =>
        /\ Len(plan.Orders) >= Len(InputZeroWeight)
        /\ SubSeq(plan.Orders, 1, Len(InputZeroWeight)) = InputZeroWeight
        /\ \A p \in (Len(InputZeroWeight) + 1)..Len(plan.Orders) :
              plan.Orders[p].Weight > 0

\* A plan was returned for an input with a zero-weight order before and a
\* zero-weight order after a positive-weight order that is in the plan.
C5_Witness ==
    /\ ReturnedPlan
    /\ \E p, q, r \in 1..Len(orders) :
          /\ p < q /\ q < r
          /\ orders[p].Weight = 0
          /\ orders[q].Weight > 0 /\ ~LeftOut(q)
          /\ orders[r].Weight = 0

\* C6: the positive-weight orders of the plan are in their input order,
\* and on the input of TestSelectOrdersForDeliveryBasic the plan is
\* [id1, id2] with total weight 9 and total value 50.  (Violated: the
\* solvers emit the orders in the order of their value/weight ratio.)
C6_PositiveOrdersKeepInputOrder ==
    ReturnedPlan =>
        /\ \A p, q \in 1..Len(PlanPositive) :
              p < q => PlanPositive[p].OrderID < PlanPositive[q].OrderID
        /\ (orders = TestBasic.orders /\ robotCapacity = TestBasic.capacity) =>
              /\ PlanIDs = <<1, 2>>
              /\ plan.TotalWeight = 9
              /\ plan.TotalValue = 50

\* C7: with capacity > 0, every value 0 and at least one order that fits,
\* the returned plan holds at least one order, in every solver tier.
\* (Violated: Core and FPTAS return an empty plan.)
C7_ZeroValueStillSelects ==
    (/\ ReturnedPlan
     /\ robotCapacity > 0
     /\ \A p \in 1..Len(orders) : orders[p].Value = 0
     /\ \E p \in 1..Len(orders) : orders[p].Weight <= robotCapacity) =>
        Len(plan.Orders) >= 1

\* C8: with capacity <= 0, or no order, or no order that fits, the call
\* returns no error and a plan with an empty, non-nil Orders and totals 0.
C8_DegenerateInputGivesEmptyPlan ==
    (Returned /\ (robotCapacity <= 0 \/ Len(orders) = 0 \/ NothingFits)) =>
        /\ err = NoError
        /\ plan.Orders = <<>>
        /\ ~plan.OrdersNil
        /\ plan.TotalWeight = 0
        /\ plan.TotalValue = 0

\* The call returned on a positive capacity and a non-empty list of which
\* no order fits, with a context cancelled before the call.
C8_Witness ==
    /\ Returned
    /\ robotCapacity > 0
    /\ Len(orders) > 0
    /\ NothingFits
    /\ cancelledAtCall

\* C9: no order heavier than the capacity is among the candidates the
\* solver works on, nor in the plan returned by any solver tier.
C9_NoOverweightOrder ==
    /\ \A p \in 1..Len(positiveOrders) :
          positiveOrders[p].Weight <= robotCapacity
    /\ \A p \in 1..Len(zeroWeightOrders) :
          zeroWeightOrders[p].Weight <= robotCapacity
    /\ Returned =>
          \A p \in 1..Len(plan.Orders) : plan.Orders[p].Weight <= robotCapacity

\* A non-empty plan was returned for an input with an order heavier than
\* the capacity.
C9_Witness ==
    /\ ReturnedPlan
    /\ Len(plan.Orders) > 0
    /\ Len(positiveOrders) > 0
    /\ \E p \in 1..Len(orders) : orders[p].Weight > robotCapacity

\* C10: when the FPTAS is the solver, the positive-weight orders it selects
\* are worth at least 9/10 of the greatest total value of a set of
\* positive-weight orders of total weight at most capacity.
C10_FPTASWithinTenPercent ==
    (ReturnedPlan /\ tier = "fptas") =>
        10 * ValueSum(PlanPositive) >= 9 * Optimum(InputPositive, robotCapacity)

\* The FPTAS returned a plan computed on values scaled down by K > 1, and
\* the capacity kept an order that fits alone out of the plan.
C10_Witness ==
    /\ ReturnedPlan
    /\ tier = "fptas"
    /\ MaxValueOf(positiveOrders) >= 2 * EpsilonInverse * Len(positiveOrders)
    /\ \E p \in 1..Len(orders) :
          /\ LeftOut(p)
          /\ orders[p].Weight <= robotCapacity
          /\ WeightSum(plan.Orders) + orders[p].Weight > robotCapacity

\* C14: the call returns an error only when the context is cancelled: with
\* a context that is not cancelled it returns no error, whatever the input;
\* an error that is returned is the error of the context, and the plan
\* beside it has no orders.
C14_ErrorOnlyOnCancellation ==
    Returned =>
        /\ ~cancelled => err = NoError
        /\ err # NoError =>
              /\ err = ContextCanceled
              /\ plan.Orders = <<>>
              /\ plan.TotalWeight = 0
              /\ plan.TotalValue = 0

\* The Exact DP returned the error of the context after it had recorded
\* paths, on an input with a zero-weight order.
C14_Witness ==
    /\ Returned
    /\ err = ContextCanceled
    /\ tier = "exact"
    /\ Len(paths) > 0
    /\ Len(zeroWeightOrders) > 0

\* The core size that the claim C16 states for n positive-weight orders.
ClampedCoreSize(n) ==
    IF n <= 5 THEN n
    ELSE IF n \div 3 < 5 THEN 5
    ELSE IF n \div 3 > 20 THEN 20
    ELSE n \div 3

\* C16: in the Core-Algorithm solver the core that the DP solves has
\* floor(n/3) items clamped to [5, 20], so 5 items for n from 6 to 14.
\* (Violated: a core of less than 5 items is replaced by all n items.)
C16_CoreSizeClamped ==
    (ReturnedPlan /\ tier = "core") =>
        /\ idx = ClampedCoreSize(Len(positiveOrders))
        /\ Len(positiveOrders) \in 6..14 => idx = 5

\* The solver of the call selected no positive-weight order: the path of
\* the best cell of the Exact DP is empty; the other solvers return what
\* they select.
SolverSelectedNothing ==
    IF tier = "exact"
    THEN WalkPath(paths, bestPathIdx[ExactBestCap(bestValue,
                      EffectiveCap(positiveOrders, robotCapacity))]) = <<>>
    ELSE PlanPositive = <<>>

\* The order o is a best single order of the candidates: of the greatest
\* value, and of the least weight among those of the greatest value.
BestSingle(o) ==
    /\ \E p \in 1..Len(positiveOrders) : positiveOrders[p].OrderID = o.OrderID
    /\ \A p \in 1..Len(positiveOrders) :
          \/ positiveOrders[p].Value < o.Value
          \/ positiveOrders[p].Value = o.Value /\ positiveOrders[p].Weight >= o.Weight

\* C18: whenever the solver selects no positive-weight order while some
\* positive-weight order fits, the plan is the zero-weight orders followed
\* by exactly one positive-weight order, a best single one.  (Violated:
\* Core and FPTAS have no fallback and return the zero-weight orders alone.)
C18_FallbackSingleBest ==
    (/\ ReturnedPlan
     /\ robotCapacity > 0
     /\ Len(positiveOrders) > 0
     /\ SolverSelectedNothing) =>
        /\ Len(plan.Orders) = Len(zeroWeightOrders) + 1
        /\ SubSeq(plan.Orders, 1, Len(zeroWeightOrders)) = InputZeroWeight
        /\ BestSingle(plan.Orders[Len(plan.Orders)])

\* The item loop of the Exact DP is at a poll of the context: before an
\* item, or in the inner loop after a step that made steps a multiple of
\* checkEvery.
AtExactPoll == (pc = "exact" /\ idx < Len(positiveOrders)) \/ pc = "poll"

\* C19: in the Exact-DP tier the context is polled before each item and
\* every 4096 steps of the inner loop: a poll in the inner loop is at a
\* positive multiple of 4096 steps and no multiple of 4096 is passed
\* between two polls; once the context is cancelled at most 4096 further
\* steps are made; and a poll that finds the context cancelled returns the
\* error of the context and no plan, without a further step.
C19_ExactPolling ==
    /\ [](/\ pc = "poll" => steps > 0 /\ steps % 4096 = 0
          /\ (tier = "exact" /\ steps > stepsAtPoll) =>
                (steps - 1) \div 4096 = stepsAtPoll \div 4096
          /\ (tier = "exact" /\ cancelled /\ stepsAtCancel >= 0) =>
                steps - stepsAtCancel <= 4096)
    /\ [][(cancelled /\ AtExactPoll) =>
             /\ pc' = "done"
             /\ err' = ContextCanceled
             /\ plan' = ZeroPlan
             /\ steps' = steps]_vars

\* The poll of the inner loop after 4096 steps found the context cancelled,
\* which it was not at the poll before, and the call returned the error.
C19_Witness ==
    /\ Returned
    /\ tier = "exact"
    /\ err = ContextCanceled
    /\ steps = 4096
    /\ stepsAtCancel >= 0
    /\ stepsAtCancel < steps
    /\ idx < Len(positiveOrders)

\* The item indices (Go indices into positiveOrders) of the chain of path
\* nodes that starts at bestPathIdx[c].
Chain(c) == WalkPath(paths, bestPathIdx[c])

RECURSIVE ChainWeight(_)
ChainWeight(ch) ==
    IF ch = <<>> THEN 0 ELSE positiveOrders[ch[1] + 1].Weight + ChainWeight(Tail(ch))

RECURSIVE ChainValue(_)
ChainValue(ch) ==
    IF ch = <<>> THEN 0 ELSE positiveOrders[ch[1] + 1].Value + ChainValue(Tail(ch))

\* C20: in the Exact DP, at every point of the item loop and for every cell
\* c in 0..effectiveCap, the chain of path nodes from bestPathIdx[c] names
\* pairwise distinct items whose values sum to bestValue[c] and whose
\* weights sum to at most c; a cell with bestPathIdx[c] = -1 has
\* bestValue[c] = 0.
C20_PathChains ==
    tier = "exact" =>
        /\ DOMAIN bestValue = 0..EffectiveCap(positiveOrders, robotCapacity)
        /\ DOMAIN bestPathIdx = DOMAIN bestValue
        /\ \A c \in DOMAIN bestValue :
              /\ \A p, q \in 1..Len(Chain(c)) : p # q => Chain(c)[p] # Chain(c)[q]
              /\ ChainValue(Chain(c)) = bestValue[c]
              /\ ChainWeight(Chain(c)) <= c
              /\ bestPathIdx[c] = -1 => bestValue[c] = 0

\* The inner loop is at a poll, between two cells, and a cell has a chain
\* of two items.
C20_Witness ==
    /\ pc = "poll"
    /\ \E c \in DOMAIN bestValue : Len(Chain(c)) >= 2

\* C13: with n positive-weight orders that fit and capacity C the solver is
\* the first match of: Greedy if n <= 5 or C <= 20; Core if n <= 50 and
\* C <= 200; FPTAS if n > 100 or C > 500; else Exact DP.  Hence the Exact DP
\* runs exactly when 21 <= C <= 500, 6 <= n <= 100 and not (n <= 50 and
\* C <= 200).
C13_TierSelection ==
    probe.tier # "unset" =>
        /\ probe.tier = "greedy" <=> (probe.n <= 5 \/ probe.c <= 20)
        /\ probe.tier = "core" <=>
               (/\ ~(probe.n <= 5 \/ probe.c <= 20)
                /\ probe.n <= 50 /\ probe.c <= 200)
        /\ probe.tier = "fptas" <=>
               (/\ ~(probe.n <= 5 \/ probe.c <= 20)
                /\ ~(probe.n <= 50 /\ probe.c <= 200)
                /\ (probe.n > 100 \/ probe.c > 500))
        /\ probe.tier = "exact" <=>
               (/\ 21 <= probe.c /\ probe.c <= 500
                /\ 6 <= probe.n /\ probe.n <= 100
                /\ ~(probe.n <= 50 /\ probe.c <= 200))

\* The Exact DP was chosen at the corner of its range next to the FPTAS.
C13_Witness ==
    /\ probe.tier = "exact"
    /\ probe.n = 100
    /\ probe.c = 500

\* The request of r holds a plan that the optimizer returned to it.
HoldsPlan(r) ==
    \/ robot[r].pc \in {"selected", "updated"}
    \/ robot[r].pc = "returned" /\ robot[r].result = "plan"

\* C15: the order list of a plan that a call returned is never changed by
\* a later or concurrent call that shares the pool: plan.Orders shares no
\* array with a slice that the call has put back into the pool, and reads
\* as it did when the call returned.  (Violated: the Exact DP and the
\* return for zero-weight orders alone return the pooled slice selected,
\* which the deferred Put gives back to the pool.)
C15_PlanNotInPool ==
    \A r \in Robots :
        (HoldsPlan(r) /\ robot[r].plan.Orders.len > 0) =>
            /\ robot[r].plan.Orders.arr \notin orderPool
            /\ SliceRead(heap, robot[r].plan.Orders) = robot[r].picked

\* C11: GenerateDeliveryPlan sets 'delivering' for exactly the orders of
\* the plan it returns: on success the IDs passed to UpdateStatuses are the
\* IDs of plan.Orders as returned, and no update is issued for an empty
\* plan; when the selection is cancelled or a step fails, no plan is
\* returned and no update is issued after the failure.  (Violated: by the
\* pooled array of C15 the orders of the plan can change between the
\* update and the return.)
C11_UpdatesExactlyThePlan ==
    \A r \in Robots :
        robot[r].pc = "returned" =>
            /\ robot[r].result = "plan" =>
                  /\ robot[r].err = NoError
                  /\ IF robot[r].plan.Orders.len > 0
                     THEN robot[r].updates = 1 /\ robot[r].issued = robot[r].ids
                     ELSE robot[r].updates = 0
            /\ robot[r].result = "nil" =>
                  /\ robot[r].plan = NoPlan
                  /\ robot[r].failedAt \in {"fetch", "select"} => robot[r].updates = 0
                  /\ robot[r].updates <= 1

\* The parts of C11 that do not depend on the contents of plan.Orders.
C11_SafeParts ==
    \A r \in Robots :
        robot[r].pc = "returned" =>
            /\ robot[r].result = "plan" =>
                  /\ robot[r].err = NoError
                  /\ robot[r].updates = (IF robot[r].plan.Orders.len > 0 THEN 1 ELSE 0)
                  /\ Len(robot[r].issued) = robot[r].plan.Orders.len
            /\ robot[r].result = "nil" =>
                  /\ robot[r].plan = NoPlan
                  /\ robot[r].failedAt \in {"fetch", "select"} => robot[r].updates = 0
                  /\ robot[r].updates <= 1

\* What the optimizer returned to the request of r: the totals and the
\* orders of the plan as they were when it returned.
ReturnedTo(r) ==
    [TotalWeight |-> robot[r].plan.TotalWeight,
     TotalValue |-> robot[r].plan.TotalValue,
     Orders |-> robot[r].picked]

\* C12: two calls of the optimizer with the same order list and capacity
\* return the same plan (the same orders in the same sequence, the same
\* totals), whatever the pool held and whichever calls ran in between.
C12_SameInputSamePlan ==
    \A r, q \in Robots :
        (/\ HoldsPlan(r)
         /\ HoldsPlan(q)
         /\ robot[r].orders = robot[q].orders
         /\ robot[r].capacity = robot[q].capacity) =>
            ReturnedTo(r) = ReturnedTo(q)

\* Two requests hold plans of the Exact DP for the same input; the second
\* call of the first request ran after the call of the other and took the
\* array of its selected from a plan.
C12_Witness ==
    \E r, q \in Robots :
        /\ r # q
        /\ HoldsPlan(r)
        /\ HoldsPlan(q)
        /\ robot[r].orders = robot[q].orders
        /\ robot[r].capacity = robot[q].capacity
        /\ ChooseTier(Len(PositiveOf(FilterFits(robot[r].orders, robot[r].capacity))),
                      robot[r].capacity) = "exact"
        /\ robot[r].requests = 2
        /\ robot[r].plan.Orders.arr = robot[q].plan.Orders.arr

\* The plans of the inputs when the call is made with memPool = nil.
NilPoolPlans == [in \in PoolInputs |-> PlanOf(in)]

\* C17: for the same input and a context that is not cancelled, the call
\* with a pool returns the plan that the call with memPool = nil returns
\* (the same orders in the same sequence, the same totals), whatever
\* arrays the pool hands out.
C17_PoolIsTransparent ==
    \A r \in Robots :
        HoldsPlan(r) =>
            LET nilPlan == NilPoolPlans[[orders |-> robot[r].orders,
                                         capacity |-> robot[r].capacity]]
            IN /\ robot[r].picked = nilPlan.Orders
               /\ robot[r].plan.TotalWeight = nilPlan.TotalWeight
               /\ robot[r].plan.TotalValue = nilPlan.TotalValue

\* The only call of a request ran over the array of the plan that another
\* request holds from its only call, and wrote on it: that plan reads
\* otherwise now.
C17_Witness ==
    \E r, q \in Robots :
        /\ r # q
        /\ HoldsPlan(r)
        /\ HoldsPlan(q)
        /\ robot[r].requests = 1
        /\ robot[q].requests = 1
        /\ robot[r].plan.Orders.len > 0
        /\ SliceRead(heap, robot[q].plan.Orders) # robot[q].picked

\* The scaled value and the weight of the orders of positiveOrders at the
\* positions S, as scaled by the FPTAS.
RECURSIVE ScaledSum(_, _, _)
ScaledSum(scaled, S, k) ==
    IF k = 0 THEN <<0, 0>>
    ELSE LET rest == ScaledSum(scaled, S, k - 1)
         IN IF k \in S
            THEN <<rest[1] + scaled[k].Value, rest[2] + scaled[k].Weight>>
            ELSE rest

\* <<scaled value, weight>> of every set of the first k orders.
SubsetSums(k) ==
    LET scaled == ScaledOrders(positiveOrders)
    IN {ScaledSum(scaled, S, k) : S \in SUBSET (1..k)}

\* C21: in the FPTAS, after the first i orders (for every i), dp[v] is for
\* every v in 0..maxScaledValue the least weight of a set of those orders,
\* each taken at most once, whose scaled values sum to v and whose weight
\* is at most the capacity, and capacity+1 when there is no such set.
C21_FPTASMinWeight ==
    (tier = "fptas" /\ pc \in {"fptas", "done"}) =>
        LET sums == SubsetSums(idx)
        IN /\ DOMAIN dp = 0..MaxScaledValue(positiveOrders)
           /\ \A v \in DOMAIN dp :
                 /\ dp[v] \in 0..(robotCapacity + 1)
                 /\ dp[v] <= robotCapacity => <<v, dp[v]>> \in sums
           /\ \A s \in sums :
                 (s[2] <= robotCapacity /\ s[1] \in DOMAIN dp) => dp[s[1]] <= s[2]
           /\ \A s \in sums : s[1] \in DOMAIN dp

\* The FPTAS has processed orders of which one set is too heavy for the
\* capacity and another set of the same scaled value is heavier than the
\* least.
C21_Witness ==
    /\ pc = "fptas"
    /\ idx >= 2
    /\ \E s \in SubsetSums(idx) : s[2] > robotCapacity
    /\ \E v \in DOMAIN dp : dp[v] = robotCapacity + 1
    /\ \E s \in SubsetSums(idx) : s[2] <= robotCapacity /\ dp[s[1]] < s[2]

\* C24: in every solver tier each input order (its OrderID is its position
\* in the input) is at most once in plan.Orders, and every order of
\* plan.Orders is an input order as it was given (same id, weight and
\* value).
C24_OrdersOnceAndUnmodified ==
    ReturnedPlan =>
        /\ \A p, q \in 1..Len(plan.Orders) :
              p # q => plan.Orders[p].OrderID # plan.Orders[q].OrderID
        /\ \A p \in 1..Len(plan.Orders) :
              /\ plan.Orders[p].OrderID \in 1..Len(orders)
              /\ plan.Orders[p] = orders[plan.Orders[p].OrderID]

\* The Core solver returned orders of its core and orders of its greedy
\* tail, and left orders out.
C24_CoreTailReached ==
    /\ ReturnedPlan
    /\ tier = "core"
    /\ CoreSize(Len(positiveOrders)) < Len(positiveOrders)
    /\ \E p \in 1..Len(plan.Orders) :
          \E k \in 1..CoreSize(Len(positiveOrders)) :
              plan.Orders[p] = positiveOrders[k]
    /\ \E p \in 1..Len(plan.Orders) :
          \E k \in (CoreSize(Len(positiveOrders)) + 1)..Len(positiveOrders) :
              plan.Orders[p] = positiveOrders[k]
    /\ \E p \in 1..Len(orders) : LeftOut(p)

\* The FPTAS returned two positive-weight orders and left one out, on
\* values scaled down by K > 1.
C24_Witness ==
    /\ ReturnedPlan
    /\ tier = "fptas"
    /\ ScaleK(positiveOrders) > 1
    /\ Len(PlanPositive) >= 2
    /\ \E p \in 1..Len(orders) : LeftOut(p) /\ orders[p].Weight <= robotCapacity

\* C25: under any interleaving of concurrent GenerateDeliveryPlan calls no
\* order is in the plans that two calls returned.  (Violated: the read
\* takes no lock and the update does not ask for the status 'shipping', so
\* two transactions that read before either commits select and update the
\* same order.)
C25_NoOrderInTwoPlans ==
    \A o \in DOMAIN assigned : assigned[o] <= 1

\* createOrdersInBatches has returned.
BatchReturned == caller # <<>> /\ caller.pc = "returned"

\* A batch insert failed.
SomeBatchFailed == \E b \in DOMAIN goroutine : goroutine[b].result = "failed"

\* C22: createOrdersInBatches returns only after every batch goroutine it
\* started has finished, and it always returns: whatever the number of
\* batches and whichever batches fail, no goroutine waits forever for the
\* semaphore or for the error channel.
C22_ReturnsAfterEveryGoroutine ==
    /\ [](BatchReturned => \A b \in DOMAIN goroutine : goroutine[b].pc = "done")
    /\ <>BatchReturned

\* C22 (witness): a call with more batches than the semaphore admits, some
\* of them failing, has returned.
C22_Witness ==
    /\ BatchReturned
    /\ Len(batches) > maxConcurrency
    /\ Cardinality({b \in DOMAIN goroutine : goroutine[b].result = "failed"}) >= 2
    /\ \E b \in DOMAIN goroutine : goroutine[b].result = "inserted"

\* C22 (reached): a goroutine waits for the semaphore that four others hold
\* while one of the four waits for mu and another is about to send its
\* error.
C22_SemaphoreFull ==
    /\ caller # <<>>
    /\ semaphore = maxConcurrency
    /\ \E b \in DOMAIN goroutine : goroutine[b].pc = "start"
    /\ \E b \in DOMAIN goroutine : goroutine[b].pc = "inserted" /\ mu
    /\ \E b \in DOMAIN goroutine : goroutine[b].pc = "failed"

\* The runs of IDs in ids that hold the ID of order k.
RunsWith(ids, k) == {p \in DOMAIN ids : ids[p].first <= k /\ k < ids[p].end}

\* C23: createOrdersInBatches returns an error exactly when a batch insert
\* failed, and then leaves *insertedOrderIDs as it was; when no batch
\* failed, *insertedOrderIDs holds every ID of every batch once and nothing
\* else, however the goroutines interleave.
C23_ErrorIffBatchFailed ==
    /\ [](BatchReturned =>
            /\ caller.err # NoError <=> SomeBatchFailed
            /\ ~SomeBatchFailed =>
                 /\ \A k \in 0..(ordersLen - 1) :
                        Cardinality(RunsWith(insertedOrderIDs, k)) = 1
                 /\ \A p \in DOMAIN insertedOrderIDs :
                        /\ 0 <= insertedOrderIDs[p].first
                        /\ insertedOrderIDs[p].end <= ordersLen)
    /\ [][insertedOrderIDs' # insertedOrderIDs =>
            caller'.pc = "returned" /\ caller'.err = NoError]_vars

\* C23 (witness): a call of the most batches has returned without an error,
\* the IDs of a later batch before those of the first, over the IDs that
\* were there before.
C23_Witness ==
    /\ BatchReturned
    /\ caller.err = NoError
    /\ Len(batches) = MaxBatches
    /\ Len(insertedOrderIDs) = MaxBatches
    /\ insertedOrderIDs[1].first > 0

\* C23 (reached): a call has returned the error of a failed batch after
\* other batches were inserted, and *insertedOrderIDs holds what it held.
C23_FailedReached ==
    /\ BatchReturned
    /\ caller.err = DBError
    /\ allOrderIDs # <<>>
    /\ insertedOrderIDs \in PriorOrderIDs \ {<<>>}

\* C26: after any sequence and interleaving of get and set the cache holds
\* at most maxEntries entries.  (Violated: evictOldestLocked takes the key
\* "" for "no key found", so when the entry of the key "" is the one with
\* the earliest expiry and the range visits it last, nothing is removed
\* and set inserts into the full cache.)
C26_AtMostMaxEntries ==
    Cardinality(DOMAIN entries) <= maxEntries

\* C26 (holds): as long as set was never called with the key "" the cache
\* holds at most maxEntries entries.
C26_NonEmptyKeysBounded ==
    ~emptyKeySet => Cardinality(DOMAIN entries) <= maxEntries

\* C26 (reached): a full cache of keys other than "" whose entries are not
\* expired, after a set that removed the entry of the earliest expiry.
C26_EvictedOldestReached ==
    /\ ~emptyKeySet
    /\ reader # <<>>
    /\ Cardinality(DOMAIN entries) = maxEntries
    /\ \A k \in DOMAIN entries : ~After(now, entries[k].expiresAt)
    /\ \E k \in DOMAIN entries : entries[k].expiresAt = now + ttl /\ now > 0
    /\ \E j, k \in DOMAIN entries : entries[j].expiresAt < entries[k].expiresAt

====
